---- MODULE Spec2Model ----
(***************************************************************************)
(* EulerCPP: the driver (main, preprocess, solve) and the per-stage        *)
(* pipeline of the explicit finite-volume solver, as a state machine.      *)
(*                                                                         *)
(* Numbers.  A C++ double is modelled as an extended rational <<n, d>>     *)
(* with d >= 0 in lowest terms: d > 0 is the rational n/d, <<1,0>> is      *)
(* +Inf, <<-1,0>> is -Inf and <<0,0>> is NaN.  Add, Mul, Div and the       *)
(* comparisons follow IEEE-754 on these values (NaN is unordered and       *)
(* absorbing, x/0 is an infinity or NaN); rounding, overflow to infinity   *)
(* and the sign of zero are not represented.                               *)
(*                                                                         *)
(* Arrays are 0-based functions, as in the source; -1 is "none".           *)
(***************************************************************************)
EXTENDS Integers, Sequences, FiniteSets, TLC

(***************************************************************************)
(* Extended rational arithmetic (IEEE-754 doubles without rounding).       *)
(***************************************************************************)
Abs(n) == IF n < 0 THEN -n ELSE n

Sign(n) == IF n < 0 THEN -1 ELSE IF n > 0 THEN 1 ELSE 0

RECURSIVE GCD(_, _)
GCD(a, b) == IF b = 0 THEN a ELSE GCD(b, a % b)

Norm(n, d) ==
    IF d = 0 THEN <<Sign(n), 0>>
    ELSE LET g == GCD(Abs(n), Abs(d))
             s == Sign(d)
         IN  <<(s * n) \div g, (s * d) \div g>>

R(n) == <<n, 1>>

Q(n, d) == Norm(n, d)

NaN == <<0, 0>>

PInf == <<1, 0>>

NInf == <<-1, 0>>

Zero == <<0, 1>>

IsNaN(x) == x[2] = 0 /\ x[1] = 0

IsInf(x) == x[2] = 0 /\ x[1] # 0

IsFinite(x) == x[2] > 0

Add(x, y) ==
    IF IsNaN(x) \/ IsNaN(y) THEN NaN
    ELSE IF IsInf(x) /\ IsInf(y) THEN (IF x = y THEN x ELSE NaN)
    ELSE IF IsInf(x) THEN x
    ELSE IF IsInf(y) THEN y
    ELSE LET g == GCD(x[2], y[2])
         IN  Norm(x[1] * (y[2] \div g) + y[1] * (x[2] \div g),
                  (x[2] \div g) * y[2])

Neg(x) == <<-x[1], x[2]>>

Sub(x, y) == Add(x, Neg(y))

\* Common factors are cancelled before the products are formed.
Mul(x, y) ==
    IF x[2] = 0 \/ y[2] = 0 THEN Norm(Sign(x[1]) * Sign(y[1]), 0)
    ELSE LET g1 == GCD(Abs(x[1]), y[2])
             g2 == GCD(Abs(y[1]), x[2])
         IN  Norm((x[1] \div g1) * (y[1] \div g2), (x[2] \div g2) * (y[2] \div g1))

\* 1/x: 1/0 is +Inf (the sign of zero is not represented), 1/Inf is 0.
Recip(x) ==
    IF x[1] > 0 THEN <<x[2], x[1]>>
    ELSE IF x[1] < 0 THEN <<-x[2], -x[1]>>
    ELSE IF x[2] > 0 THEN PInf
    ELSE NaN

Div(x, y) == Mul(x, Recip(y))

\* a/c < e/d for positive c and d, by comparing the integer parts and then
\* the reciprocals of the fractional parts (no product is formed).
RECURSIVE LtFrac(_, _, _, _)
LtFrac(a, c, e, d) ==
    IF a \div c # e \div d THEN a \div c < e \div d
    ELSE IF e % d = 0 THEN FALSE
    ELSE IF a % c = 0 THEN TRUE
    ELSE LtFrac(d, e % d, c, a % c)

\* x < y as C++ evaluates it: false whenever an operand is NaN.
Lt(x, y) ==
    IF IsNaN(x) \/ IsNaN(y) THEN FALSE
    ELSE IF IsInf(x) /\ IsInf(y) THEN x[1] < y[1]
    ELSE IF IsInf(x) THEN x[1] < 0
    ELSE IF IsInf(y) THEN y[1] > 0
    ELSE LtFrac(x[1], x[2], y[1], y[2])

Gt(x, y) == Lt(y, x)

Le(x, y) == ~IsNaN(x) /\ ~IsNaN(y) /\ ~Lt(y, x)

Ge(x, y) == Le(y, x)


(***************************************************************************)
(* Bounds of the model and program constants.                              *)
(***************************************************************************)
\* Largest configured maxiter.
MaxIter == 2

\* Largest configured time_stages.
MaxStages == 2

\* Number of conservative variables (density, 3 momenta, total energy).
n_var == 5

Vars == 0 .. (n_var - 1)

\* BCType codes.
SUPERSONIC_INLET == 0

SUPERSONIC_OUTLET == 1

STAGNATION_INLET == 2

SUBSONIC_INLET == 3

PRESSURE_OUTLET == 4

WALL == 5

SYMMETRY == 6

SLIPWALL == 7

MOVING_WALL == 8

AXIS == 9

\* input.fluid.gamma, configured as 2.
gamma == R(2)

\* The pressure floor 1.0e-14 of the flux and boundary functions, kept small
\* enough for the model's integers.
PressureFloor == Q(1, 16)

(***************************************************************************)
(* The mesh after read_mesh: five unit hexahedra in a row along x, cell i *)
(* occupying i <= x <= i+1.  Half-faces are numbered as compute_faces      *)
(* numbers them in a sequential run, six per cell: face 6*i+k of cell i,   *)
(* k = 0..5 for the sides -x, +x, -y, +y, -z, +z.                          *)
(***************************************************************************)
n_elements == 5

Elements == 0 .. (n_elements - 1)

n_faces == 6 * n_elements

Faces == 0 .. (n_faces - 1)

UnitX == <<R(1), Zero, Zero>>

UnitY == <<Zero, R(1), Zero>>

UnitZ == <<Zero, Zero, R(1)>>

NegVec(x) == <<Neg(x[1]), Neg(x[2]), Neg(x[3])>>

\* compute_faces: face.owner = i for the faces created from element i.
face_owner == [f \in Faces |-> f \div 6]

\* compute_face_connectivity: the half-face with the same nodes, or -1.
face_opposite ==
    [f \in Faces |->
        IF f % 6 = 1 /\ f \div 6 < n_elements - 1 THEN f + 5
        ELSE IF f % 6 = 0 /\ f \div 6 > 0 THEN f - 5
        ELSE -1]

\* compute_face_connectivity: neighbor = owner of the matching half-face.
face_neighbor ==
    [f \in Faces |-> IF face_opposite[f] = -1 THEN -1
                     ELSE face_owner[face_opposite[f]]]

\* Outward unit normal and the two tangents of the face frame.
face_normal ==
    [f \in Faces |->
        CASE f % 6 = 0 -> NegVec(UnitX)
          [] f % 6 = 1 -> UnitX
          [] f % 6 = 2 -> NegVec(UnitY)
          [] f % 6 = 3 -> UnitY
          [] f % 6 = 4 -> NegVec(UnitZ)
          [] OTHER -> UnitZ]

face_t1 ==
    [f \in Faces |->
        CASE f % 6 \in {0, 1} -> UnitY
          [] f % 6 \in {2, 3} -> UnitZ
          [] OTHER -> UnitX]

face_t2 ==
    [f \in Faces |->
        CASE f % 6 = 0 -> NegVec(UnitZ)
          [] f % 6 = 1 -> UnitZ
          [] f % 6 = 2 -> NegVec(UnitX)
          [] f % 6 = 3 -> UnitX
          [] f % 6 = 4 -> NegVec(UnitY)
          [] OTHER -> UnitY]

face_area == [f \in Faces |-> R(1)]

elem_n_faces == [i \in Elements |-> Cardinality({f \in Faces : face_owner[f] = i})]

\* elem.faces[k], k = 0 .. n_faces-1
elem_faces == [i \in Elements |-> [k \in 0 .. 5 |-> 6 * i + k]]

\* elem.neighbors[k] = faces[elem.faces[k]].neighbor
elem_neighbors ==
    [i \in Elements |-> [k \in 0 .. 5 |-> face_neighbor[elem_faces[i][k]]]]

elem_volume == [i \in Elements |-> R(1)]

\* assign_boundaries: the number of half-faces without a neighbour.
mesh_n_boundaries == Cardinality({f \in Faces : face_neighbor[f] = -1})

BoundaryFaces == {f \in Faces : face_opposite[f] = -1}

(***************************************************************************)
(* Conservative states.                                                    *)
(***************************************************************************)
St(r, mx, my, mz, e) == [v \in Vars |-> CASE v = 0 -> r [] v = 1 -> mx
                                          [] v = 2 -> my [] v = 3 -> mz
                                          [] OTHER -> e]

ZeroState == [v \in Vars |-> Zero]


Half == Q(1, 2)

\* 0.5*(m1^2 + m2^2 + m3^2)/rho, as apply_corrections computes it.
Kinetic(w) ==
    Div(Mul(Half, Add(Add(Mul(w[1], w[1]), Mul(w[2], w[2])), Mul(w[3], w[3]))),
        w[0])

\* The test of apply_corrections on the current state of an element.
Flagged(w) ==
    \/ \E v \in Vars : IsNaN(w[v]) \/ IsInf(w[v])
    \/ Lt(w[4], Kinetic(w))
    \/ Lt(w[0], Zero)

\* The test of apply_corrections on a neighbour's previous state, which is
\* made once per variable v of the element being corrected.
NeighbourUsable(w, v) ==
    /\ ~(IsNaN(w[v]) \/ IsInf(w[v]))
    /\ ~(Lt(w[0], Zero) \/ Lt(w[4], Kinetic(w)))

\* Pressure as the boundary functions compute it, floor included.
Pressure(w) ==
    LET rho == w[0]
        u == Div(w[1], rho)
        v == Div(w[2], rho)
        ww == Div(w[3], rho)
        q == Add(Add(Mul(u, u), Mul(v, v)), Mul(ww, ww))
        p == Mul(Sub(gamma, R(1)), Sub(w[4], Mul(Mul(Half, rho), q)))
    IN  IF Lt(p, Zero) THEN PressureFloor ELSE p

(***************************************************************************)
(* <cmath> and <algorithm> helpers.                                        *)
(***************************************************************************)
\* std::max(a, b) = (a < b) ? b : a, so a NaN second argument is ignored.
Max(a, b) == IF Lt(a, b) THEN b ELSE a

\* std::abs on a double.
AbsR(x) == <<Abs(x[1]), x[2]>>

RECURSIVE ISqrtIter(_, _, _)
ISqrtIter(n, lo, hi) ==
    IF lo >= hi THEN lo
    ELSE LET mid == (lo + hi + 1) \div 2
         IN  IF mid * mid <= n THEN ISqrtIter(n, mid, hi)
             ELSE ISqrtIter(n, lo, mid - 1)

ISqrt(n) == ISqrtIter(n, 0, IF n < 46340 THEN n ELSE 46340)

\* std::sqrt: NaN for a negative or NaN argument, +Inf for +Inf; a finite
\* root is rounded down to a multiple of 1/8 (exact for 0, 1, 9/4, 4, ...).
Sqrt(x) ==
    IF IsNaN(x) \/ Lt(x, Zero) THEN NaN
    ELSE IF IsInf(x) THEN PInf
    ELSE Norm(ISqrt((64 * x[1]) \div x[2]), 8)

\* w[1]*n[0] + w[2]*n[1] + w[3]*n[2] for a state w and a vector n.
Dot(w, n) == Add(Add(Mul(w[1], n[1]), Mul(w[2], n[2])), Mul(w[3], n[3]))

Scale(c, w) == [v \in Vars |-> Mul(c, w[v])]

(***************************************************************************)
(* Riemann solver (input.numerical.riemann = RUSANOV) and flux rotation.   *)
(***************************************************************************)
rusanov(WL, WR) ==
    LET rhoL == WL[0]
        rhoR == WR[0]
        unL == Div(WL[1], rhoL)
        unR == Div(WR[1], rhoR)
        ut1L == Div(WL[2], rhoL)
        ut1R == Div(WR[2], rhoR)
        ut2L == Div(WL[3], rhoL)
        ut2R == Div(WR[3], rhoR)
        EL == WL[4]
        ER == WR[4]
        qL == Add(Add(Mul(unL, unL), Mul(ut1L, ut1L)), Mul(ut2L, ut2L))
        qR == Add(Add(Mul(unR, unR), Mul(ut1R, ut1R)), Mul(ut2R, ut2R))
        pL0 == Mul(Sub(gamma, R(1)), Sub(EL, Mul(Mul(Half, rhoL), qL)))
        pR0 == Mul(Sub(gamma, R(1)), Sub(ER, Mul(Mul(Half, rhoR), qR)))
        pL == IF Lt(pL0, Zero) THEN PressureFloor ELSE pL0
        pR == IF Lt(pR0, Zero) THEN PressureFloor ELSE pR0
        aL == Sqrt(Div(Mul(gamma, pL), rhoL))
        aR == Sqrt(Div(Mul(gamma, pR), rhoR))
        FL == St(Mul(rhoL, unL),
                 Add(Mul(Mul(rhoL, unL), unL), pL),
                 Mul(Mul(rhoL, unL), ut1L),
                 Mul(Mul(rhoL, unL), ut2L),
                 Mul(Add(EL, pL), unL))
        FR == St(Mul(rhoR, unR),
                 Add(Mul(Mul(rhoR, unR), unR), pR),
                 Mul(Mul(rhoR, unR), ut1R),
                 Mul(Mul(rhoR, unR), ut2R),
                 Mul(Add(ER, pR), unR))
        Smax == Max(Add(AbsR(unL), aL), Add(AbsR(unR), aR))
    IN  [v \in Vars |->
            Sub(Mul(Half, Add(FL[v], FR[v])),
                Mul(Mul(Half, Smax), Sub(WR[v], WL[v])))]

\* std::min(a, b) is (b < a) ? b : a.
Min(a, b) == IF Lt(b, a) THEN b ELSE a

\* The head shared by rusanov, hll and hllc: velocities of a state given in
\* the face frame.
Prim(w) ==
    [rho |-> w[0], un |-> Div(w[1], w[0]), ut1 |-> Div(w[2], w[0]),
     ut2 |-> Div(w[3], w[0]), E |-> w[4]]

\* pL, pR: the pressure of the state, replaced by 1.0e-14 when negative.
SidePressure(s) ==
    LET q == Add(Add(Mul(s.un, s.un), Mul(s.ut1, s.ut1)), Mul(s.ut2, s.ut2))
        p0 == Mul(Sub(gamma, R(1)), Sub(s.E, Mul(Mul(Half, s.rho), q)))
    IN  IF Lt(p0, Zero) THEN PressureFloor ELSE p0

\* aL, aR
SideSpeed(s, p) == Sqrt(Div(Mul(gamma, p), s.rho))

\* FL, FR: the Euler flux of a state along the face normal.
SideFlux(s, p) ==
    St(Mul(s.rho, s.un),
       Add(Mul(Mul(s.rho, s.un), s.un), p),
       Mul(Mul(s.rho, s.un), s.ut1),
       Mul(Mul(s.rho, s.un), s.ut2),
       Mul(Add(s.E, p), s.un))

\* SL and SR of hll and hllc.
WaveLeft(sL, sR, aL, aR) == Sub(Min(sL.un, sR.un), Max(aL, aR))

WaveRight(sL, sR, aL, aR) == Add(Max(sL.un, sR.un), Max(aL, aR))

\* Faulty variant: the wave speeds that weigh the two fluxes are exchanged.
HllFluxSwapped(WL, WR, FL, FR, SL, SR) ==
    IF Gt(SL, Zero) THEN FL
    ELSE IF Lt(SR, Zero) THEN FR
    ELSE [v \in Vars |->
            Div(Add(Sub(Mul(SL, FL[v]), Mul(SR, FR[v])),
                    Mul(Mul(SL, SR), Sub(WR[v], WL[v]))),
                Sub(SR, SL))]

\* The three branches of hll.
HllFlux(WL, WR, FL, FR, SL, SR) ==
    IF Gt(SL, Zero) THEN FL
    ELSE IF Lt(SR, Zero) THEN FR
    ELSE [v \in Vars |->
            Div(Add(Sub(Mul(SR, FL[v]), Mul(SL, FR[v])),
                    Mul(Mul(SL, SR), Sub(WR[v], WL[v]))),
                Sub(SR, SL))]

hll(WL, WR) ==
    LET sL == Prim(WL)
        sR == Prim(WR)
        pL == SidePressure(sL)
        pR == SidePressure(sR)
        aL == SideSpeed(sL, pL)
        aR == SideSpeed(sR, pR)
    IN  HllFlux(WL, WR, SideFlux(sL, pL), SideFlux(sR, pR),
                WaveLeft(sL, sR, aL, aR), WaveRight(sL, sR, aL, aR))

\* SM of hllc.
ContactSpeed(WL, WR, sL, sR, pL, pR, SL, SR) ==
    Div(Sub(Add(Sub(pR, pL), Mul(WL[1], Sub(SL, sL.un))),
            Mul(WR[1], Sub(SR, sR.un))),
        Sub(Mul(sL.rho, Sub(SL, sL.un)), Mul(sR.rho, Sub(SR, sR.un))))

\* pM of hllc.
ContactPressure(sL, sR, pL, pR, SL, SR, SM) ==
    Mul(Half,
        Add(Add(Add(pL, pR),
                Mul(Mul(sL.rho, Sub(SL, sL.un)), Sub(SM, sL.un))),
            Mul(Mul(sR.rho, Sub(SR, sR.un)), Sub(SM, sR.un))))

\* The flux of the star region on the side of the state Wk with wave Sk.
StarFlux(Wk, Fk, Sk, SM, pM) ==
    LET D == St(Zero, R(1), Zero, Zero, SM)
    IN  [v \in Vars |->
            Div(Add(Mul(SM, Sub(Mul(Sk, Wk[v]), Fk[v])),
                    Mul(Mul(Sk, pM), D[v])),
                Sub(Sk, SM))]

\* The branches of hllc.
HllcFlux(WL, WR, FL, FR, SL, SR, SM, pM) ==
    IF Gt(SL, Zero) THEN FL
    ELSE IF Lt(SR, Zero) THEN FR
    ELSE IF Gt(SM, Zero) THEN StarFlux(WL, FL, SL, SM, pM)
    ELSE StarFlux(WR, FR, SR, SM, pM)

HllcWaves(WL, WR, sL, sR, pL, pR, SL, SR) ==
    LET SM == ContactSpeed(WL, WR, sL, sR, pL, pR, SL, SR)
    IN  HllcFlux(WL, WR, SideFlux(sL, pL), SideFlux(sR, pR), SL, SR, SM,
                 ContactPressure(sL, sR, pL, pR, SL, SR, SM))

hllc(WL, WR) ==
    LET sL == Prim(WL)
        sR == Prim(WR)
        pL == SidePressure(sL)
        pR == SidePressure(sR)
        aL == SideSpeed(sL, pL)
        aR == SideSpeed(sR, pR)
    IN  HllcWaves(WL, WR, sL, sR, pL, pR,
                  WaveLeft(sL, sR, aL, aR), WaveRight(sL, sR, aL, aR))

\* enum class Riemann.
RUSANOV == 0
HLL == 1
HLLC == 2

\* riemann(): the solver init_riemann has selected.
riemann(solver, WL, WR) ==
    CASE solver = RUSANOV -> rusanov(WL, WR)
      [] solver = HLL -> hll(WL, WR)
      [] OTHER -> hllc(WL, WR)

\* The state of face g expressed in the frame (n, t1, t2) of face f.
RotateToFace(w, f) ==
    St(w[0], Dot(w, face_normal[f]), Dot(w, face_t1[f]), Dot(w, face_t2[f]), w[4])

\* The flux Fr of the face frame expressed in the global frame.
RotateBack(Fr, f) ==
    LET n == face_normal[f]
        t1 == face_t1[f]
        t2 == face_t2[f]
        comp(d) == Add(Add(Mul(Fr[1], n[d]), Mul(Fr[2], t1[d])), Mul(Fr[3], t2[d]))
    IN  St(Fr[0], comp(1), comp(2), comp(3), Fr[4])

\* One pass of the loop body of compute_fluxes for an interior face f.
InteriorFlux(wf, f) ==
    LET WL == RotateToFace(wf[f], f)
        WR == RotateToFace(wf[face_opposite[f]], f)
    IN  Scale(face_area[f], RotateBack(rusanov(WL, WR), f))

\* The same pass with the solver selected by input.numerical.riemann, for the
\* face state wi of face f and the face state wj of its opposite.
FaceFlux(solver, wi, wj, f) ==
    Scale(face_area[f],
          RotateBack(riemann(solver, RotateToFace(wi, f), RotateToFace(wj, f)),
                     f))

(***************************************************************************)
(* Boundary functions.                                                     *)
(***************************************************************************)
\* Faulty variant: the wall lets the mass and energy fluxes of the face
\* state through.
symmetryPermeable(w, Fold, f) ==
    LET n == face_normal[f]
        p == Pressure(w)
    IN  St(w[0], Mul(p, n[1]), Mul(p, n[2]), Mul(p, n[3]), w[4])

\* bc::symmetry writes the three momentum fluxes and leaves F(f,0), F(f,4).
symmetry(w, Fold, f) ==
    LET n == face_normal[f]
        p == Pressure(w)
    IN  St(Fold[0], Mul(p, n[1]), Mul(p, n[2]), Mul(p, n[3]), Fold[4])

supersonic_outlet(w, f) ==
    LET n == face_normal[f]
        rho == w[0]
        E == w[4]
        u == Div(w[1], rho)
        v == Div(w[2], rho)
        ww == Div(w[3], rho)
        p == Pressure(w)
        un == Add(Add(Mul(u, n[1]), Mul(v, n[2])), Mul(ww, n[3]))
    IN  St(Mul(rho, un),
           Add(Mul(p, n[1]), Mul(Mul(rho, u), un)),
           Add(Mul(p, n[2]), Mul(Mul(rho, v), un)),
           Add(Mul(p, n[3]), Mul(Mul(rho, ww), un)),
           Mul(Add(E, p), un))

\* Faulty variant: the axis is given the flux of a wall.
BoundaryFluxAxisAsWall(t, w, Fold, f) ==
    LET Fb == CASE t = SUPERSONIC_OUTLET -> supersonic_outlet(w, f)
                [] t \in {MOVING_WALL, WALL, SLIPWALL, SYMMETRY, AXIS} ->
                     symmetry(w, Fold, f)
                [] OTHER -> Fold
    IN  Scale(face_area[f], Fb)

\* The switch of apply_boundary_conditions for a boundary of type t,
\* followed by the scaling with the face area.
BoundaryFlux(t, w, Fold, f) ==
    LET Fb == CASE t = SUPERSONIC_OUTLET -> supersonic_outlet(w, f)
                [] t \in {MOVING_WALL, WALL, SLIPWALL, SYMMETRY} -> symmetry(w, Fold, f)
                [] OTHER -> Fold
    IN  Scale(face_area[f], Fb)

(***************************************************************************)
(* update_timestep: the largest wave speed ratio.                          *)
(***************************************************************************)
RECURSIVE LMax(_, _, _, _)
LMax(w, a, i, k) ==
    IF k = 0 THEN Zero
    ELSE LET f == elem_faces[i][k - 1]
             rho == w[0]
             vel == St(Zero, Div(w[1], rho), Div(w[2], rho), Div(w[3], rho), Zero)
             un == Dot(vel, face_normal[f])
         IN  Max(LMax(w, a, i, k - 1), Mul(face_area[f], Add(un, a)))

SoundSpeed(w) ==
    LET rho == w[0]
        u == Div(w[1], rho)
        v == Div(w[2], rho)
        ww == Div(w[3], rho)
        K == Mul(Mul(Half, rho), Add(Add(Mul(u, u), Mul(v, v)), Mul(ww, ww)))
        p == Mul(Sub(gamma, R(1)), Sub(w[4], K))
    IN  Sqrt(Div(Mul(gamma, p), rho))

Ratio(w, i) == Div(LMax(w, SoundSpeed(w), i, elem_n_faces[i]), elem_volume[i])

RECURSIVE MaxRatio(_, _)
MaxRatio(Wc, k) ==
    IF k = 0 THEN Zero
    ELSE LET prev == MaxRatio(Wc, k - 1)
             r == Ratio(Wc[k - 1], k - 1)
         IN  IF Gt(r, prev) THEN r ELSE prev

(***************************************************************************)
(* Inputs: the configuration file, the restart file and the mesh tags.     *)
(***************************************************************************)
\* std::numeric_limits<int>::max(), the delay of probes and reports when
\* none is configured.
IntMax == 2147483647

\* input.numerical.a for time_stages = n (one entry per stage).
StageCoeffs(n) == [s \in 0 .. (n - 1) |-> Q(s + 1, n)]

\* Gas at rest with p = 1 and sound speed 1.
Rest == St(R(2), Zero, Zero, Zero, R(1))

\* Gas at rest with p = 4 and sound speed 2.
Hot == St(R(2), Zero, Zero, Zero, R(4))

\* Gas at rest with p = 1, four times as dense: sound speed 1/2.
Dense == St(R(8), Zero, Zero, Zero, R(1))

\* p_0 < 0: total energy below the kinetic energy.
NegP == St(R(2), Zero, Zero, Zero, R(-1))

\* rho_0 < 0.
NegRho == St(R(-1), Zero, Zero, Zero, R(1))

\* p_0 = inf.
InfE == St(R(1), Zero, Zero, Zero, PInf)

\* p_0 = 0: a cold gas, sound speed 0.
Cold == St(R(2), Zero, Zero, Zero, Zero)

StateVals == {Rest, Hot, NegP, NegRho, InfE}

Uniform(w) == [i \in Elements |-> w]

\* Initial fields: at most two elements differ from the gas at rest, or the
\* first k elements hold the same other state.
FieldPatterns ==
    {w \in [Elements -> StateVals] : Cardinality({i \in Elements : w[i] # Rest}) <= 2}
    \cup {[i \in Elements |-> IF i < k THEN w ELSE Rest]
            : k \in 3 .. n_elements, w \in StateVals}

\* Valid fields: a density jump at rest between elements k-1 and k.
ContactPatterns ==
    {[i \in Elements |-> IF i < k THEN Rest ELSE Dense] : k \in 1 .. (n_elements - 1)}

OutputBase ==
    [prints_info_delay |-> 1, prints_delay |-> 1, probe_delay |-> 1,
     report_delay |-> 1, output_delay |-> 1, restart_delay |-> 1]

\* The defaults of struct Output, no probes and no reports configured.
OutputDefault ==
    [OutputBase EXCEPT !.prints_info_delay = 0, !.probe_delay = IntMax,
                       !.report_delay = IntMax]

OutputSparse ==
    [OutputBase EXCEPT !.prints_info_delay = 2, !.output_delay = 2,
                       !.restart_delay = 2, !.report_delay = IntMax]

OutputConfigs == {OutputBase, OutputDefault, OutputSparse}

\* face.flag after assign_boundaries: -1 where no tag matched.
TagPatterns ==
    {[f \in Faces |-> IF f \in BoundaryFaces THEN t ELSE -1] : t \in {-1, 0, 1, 7}}
    \cup {[f \in Faces |-> IF f = 0 THEN 1 ELSE IF f \in BoundaryFaces THEN 0 ELSE -1]}

\* A code outside enum BCType, as static_cast<BCType>(std::stoi(...)) yields.
UnknownType == 10

\* The four types that apply_boundary_conditions sends to bc::symmetry.
WallTypes == {MOVING_WALL, WALL, SLIPWALL, SYMMETRY}

BCTypeVals == {SUPERSONIC_OUTLET, AXIS, UnknownType} \cup WallTypes

BCLists ==
    {<<>>} \cup {<<t>> : t \in BCTypeVals}
    \cup {<<t, u>> : t \in {WALL, SUPERSONIC_OUTLET}, u \in BCTypeVals}

BaseInput ==
    [time_stages |-> 1, a |-> StageCoeffs(1), CFL |-> Q(1, 2), maxtime |-> R(2),
     maxiter |-> 1, output |-> OutputBase, n_boundaries |-> 1,
     bctype |-> <<WALL>>, restart |-> "no", restart_iter |-> 0,
     restart_time |-> Zero, Winit |-> Uniform(Rest),
     tags |-> [f \in Faces |-> IF f \in BoundaryFaces THEN 0 ELSE -1]]

\* Numerical and output settings on the uniform field.
InputsNumerics ==
    {[BaseInput EXCEPT !.time_stages = s, !.a = StageCoeffs(s), !.maxiter = m,
                       !.CFL = c, !.maxtime = t, !.output = o]
        : s \in 1 .. MaxStages, m \in 0 .. MaxIter, c \in {Q(1, 2), R(1)},
          t \in {Q(3, 4), R(2)}, o \in OutputConfigs}

\* Runs continued from a restart file (readable or not).
InputsRestart ==
    {[BaseInput EXCEPT !.time_stages = s, !.a = StageCoeffs(s), !.maxiter = m,
                       !.restart = r, !.restart_iter = 1, !.restart_time = t]
        : s \in 1 .. MaxStages, m \in 0 .. MaxIter, r \in {"ok", "bad"},
          t \in {Q(1, 2), R(2)}}

\* Valid non-uniform fields: one iteration of several stages (the first
\* timestep reaches maxtime), or several iterations of one stage.
InputsContact ==
    {[BaseInput EXCEPT !.time_stages = s, !.a = StageCoeffs(s), !.maxiter = MaxIter,
                       !.maxtime = Q(1, 2), !.Winit = w]
        : s \in 1 .. MaxStages, w \in ContactPatterns}
    \cup {[BaseInput EXCEPT !.maxiter = m, !.Winit = w]
            : m \in 1 .. MaxIter, w \in ContactPatterns}

\* A valid field advanced with a CFL number far above the stability limit.
InputsOvershoot ==
    {[BaseInput EXCEPT !.CFL = R(4), !.maxtime = R(8), !.Winit = w]
        : w \in ContactPatterns}

\* Initial fields, valid or not (load_init and the restart reader accept any
\* double), advanced by a single stage.
InputsFields ==
    {[BaseInput EXCEPT !.Winit = w] : w \in FieldPatterns \cup {Uniform(Cold)}}

\* Boundary definitions and mesh tags.
InputsBoundaries ==
    {[BaseInput EXCEPT !.n_boundaries = Len(l), !.bctype = l, !.tags = g,
                       !.Winit = w]
        : l \in BCLists, g \in TagPatterns, w \in {Uniform(Rest), Uniform(Hot)}}

\* One boundary of a wall type or an axis around fields at rest, over several
\* stages and iterations, and around fields with a negative pressure.
InputsWalls ==
    {[BaseInput EXCEPT !.bctype = <<t>>, !.time_stages = s, !.a = StageCoeffs(s),
                       !.maxiter = MaxIter, !.Winit = Uniform(Hot)]
        : t \in WallTypes, s \in 1 .. MaxStages}
    \cup {[BaseInput EXCEPT !.bctype = <<AXIS>>, !.time_stages = s,
                            !.a = StageCoeffs(s), !.maxtime = Q(1, 4),
                            !.Winit = Uniform(Hot)] : s \in 1 .. MaxStages}
    \cup {[BaseInput EXCEPT !.bctype = <<AXIS>>, !.maxiter = 2,
                            !.Winit = Uniform(Hot)]}
    \cup {[BaseInput EXCEPT !.bctype = <<t>>, !.Winit = w]
             : t \in WallTypes \cup {AXIS},
               w \in {Uniform(NegP), [Uniform(Rest) EXCEPT ![0] = NegP]}}

\* p_0 = inf in a gas moving along x.
InfEMoving == St(R(2), R(8), Zero, Zero, PInf)

\* Fields at rest in which one element holds an infinite energy and moves.
InputsInfinite ==
    {[BaseInput EXCEPT !.Winit = [Uniform(Rest) EXCEPT ![k] = InfEMoving]]
        : k \in Elements}

Inputs ==
    InputsNumerics \cup InputsRestart \cup InputsContact \cup InputsOvershoot
    \cup InputsFields \cup InputsBoundaries \cup InputsWalls
    \cup InputsInfinite

(***************************************************************************)
(* State.                                                                  *)
(***************************************************************************)
VARIABLES
    pc,           \* position of the main thread
    input,        \* sim.input as loaded
    maxiter,      \* input.numerical.maxiter (a restart adds to it)
    face_flag,    \* mesh.faces[f].flag
    iteration,    \* status.iteration
    time,         \* status.time
    dt,           \* status.dt
    cfl,          \* status.cfl
    stopped,      \* status.stopped
    dtconv,       \* the CFL timestep last computed by update_timestep
    stage,        \* loop variable of the stage loop in solve
    inner_iter,   \* static stage counter of advance_solution
    W, Wold, S, Wf, F, b,    \* sim.fields
    Wadv,         \* history: W as the last advance_solution left it
    ops,          \* history: operations run since the current iteration began
    stop_iter,    \* history: iteration in which the stop flag was raised, or 0
    written,      \* number of files written, by kind
    exit_status,  \* "running", "success", "failure" or "crashed"
    \* read_mesh, followed on its own for a mesh file
    mesh_pc,      \* position inside read_mesh
    mesh_file,    \* the mesh file and the mesh settings of the configuration
    mesh,         \* sim.mesh
    mesh_exit,    \* "running", "loaded", "failure" or "terminated"
    mesh_fatal,   \* history: the fatal condition raised, or "none"
    \* one boundary and one of its faces, followed on their own
    bc_pc,        \* position: initialisation, then a call of the boundary function
    bc,           \* the Boundary: type, value[0..4], state
    bface,        \* the face: its reconstructed state Wf(f, .) and its normal
    bW,           \* the state the boundary function builds the flux from
    bF,           \* F(f, .) of the face
    variant,      \* which definition of pressure_outlet the build links
    regime,       \* history: branch taken by the last boundary function
    trig,         \* history: conversions undergone by each angle given to cos/sin
    \* one interior face pair of compute_fluxes, followed on its own
    fx_pc,        \* position: before or after compute_fluxes
    fx_in,        \* the Riemann solver selected, the face, Wf of it and of its opposite
    fx_Fr,        \* history: what riemann() returned for the face, in its frame
    fx_F,         \* F(f, .) of the face and of its opposite
    \* one variable on a row of line cells, followed through the reconstruction
    ms_pc,        \* position: compute_gradients, reconstruction, done
    ms_in,        \* the limiter selected and W(i, v) of the cells of the row
    ms_grad,      \* gradW(i, v)[0]
    ms_alpha,     \* history: the factor alpha left by the limiter loop of each cell
    ms_Wf,        \* Wf(elem.faces[f], v) by cell i and local face f
    \* one parallel region with a reduction, followed thread by thread
    rd_pc,        \* position of each thread of the team
    rd_in,        \* the function called and the per-element value it reduces
    rd_thread,    \* the private variables of each thread
    rd_shared,    \* the variables shared by the team: var, residual, corrections
    \* a run that ends, its restart file, and the fresh run that loads it
    rs_pc,        \* "solved", "written", "loaded" or "failed"
    rs_first,     \* status and fields of the run that writes the file
    rs_file,      \* the restart file on disk
    rs_sim        \* maxiter, status and fields of the run that loads it

solverVars ==
    <<pc, input, maxiter, face_flag, iteration, time, dt, cfl, stopped, dtconv,
      stage, inner_iter, W, Wold, S, Wf, F, b, Wadv, ops, stop_iter, written,
      exit_status>>

meshVars == <<mesh_pc, mesh_file, mesh, mesh_exit, mesh_fatal>>

bcVars == <<bc_pc, bc, bface, bW, bF, variant, regime, trig>>

fluxVars == <<fx_pc, fx_in, fx_Fr, fx_F>>

musclVars == <<ms_pc, ms_in, ms_grad, ms_alpha, ms_Wf>>

reduceVars == <<rd_pc, rd_in, rd_thread, rd_shared>>

restartVars == <<rs_pc, rs_first, rs_file, rs_sim>>

kernelVars == <<fluxVars, musclVars, reduceVars, restartVars>>

vars == <<solverVars, meshVars, bcVars, kernelVars>>

\* read_mesh is not being followed.
MeshIdle ==
    /\ mesh_pc = "idle"
    /\ mesh_file = <<>>
    /\ mesh = <<>>
    /\ mesh_exit = "idle"
    /\ mesh_fatal = "none"

\* No single boundary is being followed.
BoundaryIdle ==
    /\ bc_pc = "idle"
    /\ bc = <<>>
    /\ bface = <<>>
    /\ bW = <<>>
    /\ bF = <<>>
    /\ variant = 0
    /\ regime = "none"
    /\ trig = {}

FluxIdle ==
    /\ fx_pc = "idle"
    /\ fx_in = <<>>
    /\ fx_Fr = <<>>
    /\ fx_F = <<>>

MusclIdle ==
    /\ ms_pc = "idle"
    /\ ms_in = <<>>
    /\ ms_grad = <<>>
    /\ ms_alpha = <<>>
    /\ ms_Wf = <<>>

ReduceIdle ==
    /\ rd_pc = <<>>
    /\ rd_in = <<>>
    /\ rd_thread = <<>>
    /\ rd_shared = <<>>

RestartIdle ==
    /\ rs_pc = <<>>
    /\ rs_first = <<>>
    /\ rs_file = <<>>
    /\ rs_sim = <<>>

\* No kernel is being followed on its own.
KernelIdle == FluxIdle /\ MusclIdle /\ ReduceIdle /\ RestartIdle

\* Positions inside the body of the while loop of solve.
BodyPcs ==
    {"prepare_solution_update", "update_timestep", "update_sources",
     "compute_gradients", "reconstruction", "compute_fluxes",
     "apply_boundary_conditions", "advance_solution", "apply_corrections",
     "output"}

\* Fields::init zero-fills every array; Status starts from its defaults.
Init ==
    /\ input \in Inputs
    /\ pc = "set_initial_conditions"
    /\ maxiter = input.maxiter
    /\ face_flag = input.tags
    /\ iteration = 0
    /\ time = Zero
    /\ dt = Zero
    /\ cfl = Zero
    /\ stopped = FALSE
    /\ dtconv = Zero
    /\ stage = 0
    /\ inner_iter = 0
    /\ W = Uniform(ZeroState)
    /\ Wold = Uniform(ZeroState)
    /\ S = Uniform(ZeroState)
    /\ b = Uniform(ZeroState)
    /\ Wf = [f \in Faces |-> ZeroState]
    /\ F = [f \in Faces |-> ZeroState]
    /\ Wadv = Uniform(ZeroState)
    /\ ops = <<>>
    /\ stop_iter = 0
    /\ written = [solution |-> 0, restart |-> 0, probes |-> 0, reports |-> 0,
                  final_solution |-> 0, final_restart |-> 0]
    /\ exit_status = "running"
    /\ MeshIdle
    /\ BoundaryIdle
    /\ KernelIdle

(***************************************************************************)
(* main and preprocess.                                                    *)
(***************************************************************************)
statusVars == <<iteration, time, dt, cfl, dtconv>>

fieldVars == <<W, Wold, S, Wf, F, b, Wadv>>

\* A std::exception reaches the catch clause of main: EXIT_FAILURE.
Fails == pc' = "exited" /\ exit_status' = "failure"

\* The process is killed by a signal raised by the faulting instruction.
Crashes == pc' = "exited" /\ exit_status' = "crashed"

signal_handler ==
    /\ exit_status = "running"
    /\ ~stopped
    /\ stopped' = TRUE
    /\ stop_iter' = IF pc \in BodyPcs THEN iteration ELSE stop_iter
    /\ UNCHANGED <<pc, input, maxiter, face_flag, statusVars, stage, inner_iter,
                   fieldVars, ops, written, exit_status>>
    /\ UNCHANGED <<meshVars, bcVars, kernelVars>>

set_initial_conditions ==
    /\ pc = "set_initial_conditions"
    /\ cfl' = input.CFL
    /\ IF input.restart = "bad"
       THEN /\ Fails
            /\ UNCHANGED <<maxiter, iteration, time, W>>
       ELSE /\ pc' = "init_boundaries"
            /\ UNCHANGED exit_status
            /\ W' = input.Winit
            /\ IF input.restart = "ok"
               THEN /\ maxiter' = maxiter + input.restart_iter
                    /\ iteration' = input.restart_iter
                    /\ time' = input.restart_time
               ELSE UNCHANGED <<maxiter, iteration, time>>
    /\ UNCHANGED <<input, face_flag, dt, dtconv, stopped, stage, inner_iter,
                   Wold, S, Wf, F, b, Wadv, ops, stop_iter, written>>
    /\ UNCHANGED <<meshVars, bcVars, kernelVars>>

\* Faulty variant: the switch of init_boundaries has no default case.
KnownTypesAny ==
    {SUPERSONIC_INLET, SUPERSONIC_OUTLET, STAGNATION_INLET, SUBSONIC_INLET,
     PRESSURE_OUTLET, WALL, SYMMETRY, SLIPWALL, MOVING_WALL, AXIS, UnknownType}

KnownTypes ==
    {SUPERSONIC_INLET, SUPERSONIC_OUTLET, STAGNATION_INLET, SUBSONIC_INLET,
     PRESSURE_OUTLET, WALL, SYMMETRY, SLIPWALL, MOVING_WALL, AXIS}

init_boundaries ==
    /\ pc = "init_boundaries"
    /\ IF \E k \in 1 .. Len(input.bctype) : input.bctype[k] \notin KnownTypes
       THEN /\ Fails
            /\ UNCHANGED face_flag
       ELSE /\ pc' = "save_solution"
            /\ UNCHANGED exit_status
            /\ face_flag' =
                 [f \in Faces |->
                    IF face_opposite[f] # -1 THEN face_flag[f]
                    ELSE IF 0 <= face_flag[f] /\ face_flag[f] < input.n_boundaries
                         THEN face_flag[f]
                    ELSE 0]
    /\ UNCHANGED <<input, maxiter, statusVars, stopped, stage, inner_iter,
                   fieldVars, ops, stop_iter, written>>
    /\ UNCHANGED <<meshVars, bcVars, kernelVars>>

\* The last statement of preprocess: the initial solution is written.
save_initial_solution ==
    /\ pc = "save_solution"
    /\ written' = [written EXCEPT !.solution = @ + 1]
    /\ pc' = "loop"
    /\ UNCHANGED <<input, maxiter, face_flag, statusVars, stopped, stage,
                   inner_iter, fieldVars, ops, stop_iter, exit_status>>
    /\ UNCHANGED <<meshVars, bcVars, kernelVars>>

(***************************************************************************)
(* solve: the loop test, the operations outside the stage loop, the end of *)
(* the loop body and the statements after the loop.                        *)
(***************************************************************************)
\* Faulty variant: the iteration limit is not tested.
LoopGuardNoMaxIter == Lt(time, input.maxtime) /\ ~stopped

LoopGuard == iteration < maxiter /\ Lt(time, input.maxtime) /\ ~stopped

\* Faulty variant: the boundary fluxes are written before the interior ones.
SolveOrderSwapped ==
    <<"prepare_solution_update", "update_timestep", "update_sources",
      "compute_gradients", "reconstruction", "apply_boundary_conditions",
      "compute_fluxes", "advance_solution", "apply_corrections">>

\* The calls of the loop body in program order; the last six are the body
\* of the stage loop.
SolveOrder ==
    <<"prepare_solution_update", "update_timestep", "update_sources",
      "compute_gradients", "reconstruction", "compute_fluxes",
      "apply_boundary_conditions", "advance_solution", "apply_corrections">>

\* The call that follows call p.
Successor(p) ==
    SolveOrder[(CHOOSE k \in 1 .. Len(SolveOrder) : SolveOrder[k] = p) + 1]

FirstOfStage == SolveOrder[4]

\* The loop test holds: iter++ and the body begins.
begin_iteration ==
    /\ pc = "loop"
    /\ LoopGuard
    /\ iteration' = iteration + 1
    /\ ops' = <<>>
    /\ pc' = SolveOrder[1]
    /\ UNCHANGED <<input, maxiter, face_flag, time, dt, cfl, dtconv, stopped,
                   stage, inner_iter, fieldVars, stop_iter, written, exit_status>>
    /\ UNCHANGED <<meshVars, bcVars, kernelVars>>

prepare_solution_update ==
    /\ pc = "prepare_solution_update"
    /\ Wold' = W
    /\ ops' = Append(ops, "prepare_solution_update")
    /\ pc' = Successor(pc)
    /\ UNCHANGED <<input, maxiter, face_flag, statusVars, stopped, stage,
                   inner_iter, W, S, Wf, F, b, Wadv, stop_iter, written,
                   exit_status>>
    /\ UNCHANGED <<meshVars, bcVars, kernelVars>>

update_timestep ==
    /\ pc = "update_timestep"
    /\ LET var == MaxRatio(W, n_elements)
           step == Div(cfl, var)
           t1 == Add(time, step)
       IN  /\ dtconv' = step
           /\ IF Gt(t1, input.maxtime)
              THEN /\ dt' = Sub(step, Sub(t1, input.maxtime))
                   /\ time' = input.maxtime
              ELSE /\ dt' = step
                   /\ time' = t1
    /\ ops' = Append(ops, "update_timestep")
    /\ pc' = Successor(pc)
    /\ UNCHANGED <<input, maxiter, face_flag, iteration, cfl, stopped, stage,
                   inner_iter, fieldVars, stop_iter, written, exit_status>>
    /\ UNCHANGED <<meshVars, bcVars, kernelVars>>

\* input.physics.dimension = 3: the sources are zero, scaled by the volume.
update_sources ==
    /\ pc = "update_sources"
    /\ S' = [i \in Elements |-> Scale(elem_volume[i], ZeroState)]
    /\ stage' = 0
    /\ ops' = Append(ops, "update_sources")
    /\ pc' = Successor(pc)
    /\ UNCHANGED <<input, maxiter, face_flag, statusVars, stopped, inner_iter,
                   W, Wold, Wf, F, b, Wadv, stop_iter, written, exit_status>>
    /\ UNCHANGED <<meshVars, bcVars, kernelVars>>

\* iter % delay for each periodic output; a zero delay is a division by
\* zero, which either traps or yields an arbitrary remainder.
DelayFires(d) == IF d = 0 THEN {TRUE, FALSE} ELSE {iteration % d = 0}

Delays(o) ==
    {o.prints_info_delay, o.prints_delay, o.probe_delay, o.report_delay,
     o.output_delay, o.restart_delay}

Count(c) == IF c THEN 1 ELSE 0

\* The periodic prints and writes that end the loop body.
periodic_output ==
    /\ pc = "output"
    /\ LET o == input.output
       IN  \/ /\ 0 \in Delays(o)
              /\ Crashes
              /\ UNCHANGED <<written, ops>>
           \/ /\ \E pr \in DelayFires(o.probe_delay), rp \in DelayFires(o.report_delay),
                    so \in DelayFires(o.output_delay), rs \in DelayFires(o.restart_delay) :
                    written' = [written EXCEPT !.probes = @ + Count(pr),
                                               !.reports = @ + Count(rp),
                                               !.solution = @ + Count(so),
                                               !.restart = @ + Count(rs)]
              /\ ops' = Append(ops, "periodic_output")
              /\ pc' = "loop"
              /\ UNCHANGED exit_status
    /\ UNCHANGED <<input, maxiter, face_flag, statusVars, stopped, stage,
                   inner_iter, fieldVars, stop_iter>>
    /\ UNCHANGED <<meshVars, bcVars, kernelVars>>

\* The loop test fails: final solution and restart file, then return.
end_solve ==
    /\ pc = "loop"
    /\ ~LoopGuard
    /\ written' = [written EXCEPT !.final_solution = @ + 1, !.final_restart = @ + 1]
    /\ pc' = "return"
    /\ UNCHANGED <<input, maxiter, face_flag, statusVars, stopped, stage,
                   inner_iter, fieldVars, ops, stop_iter, exit_status>>
    /\ UNCHANGED <<meshVars, bcVars, kernelVars>>

\* main returns EXIT_SUCCESS.
main_return ==
    /\ pc = "return"
    /\ pc' = "exited"
    /\ exit_status' = "success"
    /\ UNCHANGED <<input, maxiter, face_flag, statusVars, stopped, stage,
                   inner_iter, fieldVars, ops, stop_iter, written>>
    /\ UNCHANGED <<meshVars, bcVars, kernelVars>>

(***************************************************************************)
(* The six operations of a stage.                                          *)
(***************************************************************************)
\* gradW feeds only the MUSCL reconstruction and is not represented.
compute_gradients ==
    /\ pc = "compute_gradients"
    /\ ops' = Append(ops, "compute_gradients")
    /\ pc' = Successor(pc)
    /\ UNCHANGED <<input, maxiter, face_flag, statusVars, stopped, stage,
                   inner_iter, fieldVars, stop_iter, written, exit_status>>
    /\ UNCHANGED <<meshVars, bcVars, kernelVars>>

\* input.numerical.reconstruction = CONSTANT: the owner's state on each face.
constant_reconstruction(Wc) == [f \in Faces |-> Wc[face_owner[f]]]

reconstruction ==
    /\ pc = "reconstruction"
    /\ Wf' = constant_reconstruction(W)
    /\ ops' = Append(ops, "reconstruction")
    /\ pc' = Successor(pc)
    /\ UNCHANGED <<input, maxiter, face_flag, statusVars, stopped, stage,
                   inner_iter, W, Wold, S, F, b, Wadv, stop_iter, written,
                   exit_status>>
    /\ UNCHANGED <<meshVars, bcVars, kernelVars>>

compute_fluxes ==
    /\ pc = "compute_fluxes"
    /\ F' = [f \in Faces |-> IF face_opposite[f] < 0 THEN F[f]
                             ELSE InteriorFlux(Wf, f)]
    /\ ops' = Append(ops, "compute_fluxes")
    /\ pc' = Successor(pc)
    /\ UNCHANGED <<input, maxiter, face_flag, statusVars, stopped, stage,
                   inner_iter, W, Wold, S, Wf, b, Wadv, stop_iter, written,
                   exit_status>>
    /\ UNCHANGED <<meshVars, bcVars, kernelVars>>

\* input.bc.boundaries[face.flag] lies inside the vector.
FlagInRange(f) == 0 <= face_flag[f] /\ face_flag[f] < Len(input.bctype)

\* What a read past the end of input.bc.boundaries may be taken for.
GarbageTypes == {WALL, AXIS}

\* With every flag in range each boundary face gets the flux of its boundary
\* type.  A flag outside the vector is an out-of-bounds read: the process
\* faults, or the loop goes on with whatever type the memory holds.
apply_boundary_conditions ==
    /\ pc = "apply_boundary_conditions"
    /\ \/ /\ \E f \in BoundaryFaces : ~FlagInRange(f)
          /\ Crashes
          /\ UNCHANGED <<F, ops>>
       \/ /\ \E g \in GarbageTypes :
                F' = [f \in Faces |->
                        IF face_opposite[f] # -1 THEN F[f]
                        ELSE BoundaryFlux(IF FlagInRange(f)
                                          THEN input.bctype[face_flag[f] + 1]
                                          ELSE g,
                                          Wf[f], F[f], f)]
          /\ ops' = Append(ops, "apply_boundary_conditions")
          /\ pc' = Successor(pc)
          /\ UNCHANGED exit_status
    /\ UNCHANGED <<input, maxiter, face_flag, statusVars, stopped, stage,
                   inner_iter, W, Wold, S, Wf, b, Wadv, stop_iter, written>>
    /\ UNCHANGED <<meshVars, bcVars, kernelVars>>

\* dF: the sum of F over the first k faces of element i.
RECURSIVE FluxSum(_, _, _, _)
FluxSum(Fc, i, v, k) ==
    IF k = 0 THEN Zero
    ELSE Add(FluxSum(Fc, i, v, k - 1), Fc[elem_faces[i][k - 1]][v])

\* b(i, v): a NaN right-hand side is replaced by zero.
Rhs(Sc, Fc, i, v) ==
    LET r == Sub(Sc[i][v], FluxSum(Fc, i, v, elem_n_faces[i]))
    IN  IF IsNaN(r) THEN Zero ELSE r

\* Faulty variant: the stage starts from the result of the previous stage.
AdvancedFromCurrent(Wc, Wo, rhs, coef, step) ==
    [i \in Elements |-> [v \in Vars |->
        Add(Wc[i][v], Mul(Div(Mul(coef, step), elem_volume[i]), rhs[i][v]))]]

\* W(i, v) = Wold(i, v) + a[inner_iter] * dt / elem.volume * b(i, v)
Advanced(Wc, Wo, rhs, coef, step) ==
    [i \in Elements |-> [v \in Vars |->
        Add(Wo[i][v], Mul(Div(Mul(coef, step), elem_volume[i]), rhs[i][v]))]]

\* Faulty variant: the stage counter is never advanced.
StuckInnerIter(k, n) == k

\* The update of the static stage counter.
NextInnerIter(k, n) == (k + 1) % n

advance_solution ==
    /\ pc = "advance_solution"
    /\ LET rhs == [i \in Elements |-> [v \in Vars |-> Rhs(S, F, i, v)]]
       IN  /\ b' = rhs
           /\ W' = Advanced(W, Wold, rhs, input.a[inner_iter], dt)
    /\ Wadv' = W'
    /\ inner_iter' = NextInnerIter(inner_iter, input.time_stages)
    /\ ops' = Append(ops, "advance_solution")
    /\ pc' = Successor(pc)
    /\ UNCHANGED <<input, maxiter, face_flag, statusVars, stopped, stage,
                   Wold, S, Wf, F, stop_iter, written, exit_status>>
    /\ UNCHANGED <<meshVars, bcVars, kernelVars>>

\* <<correction, den>> after the first k neighbour slots of element i.
RECURSIVE FirstRing(_, _, _, _)
FirstRing(Wo, i, v, k) ==
    IF k = 0 THEN <<Zero, 0>>
    ELSE LET acc == FirstRing(Wo, i, v, k - 1)
             n == elem_neighbors[i][k - 1]
         IN  IF n < 0 THEN acc
             ELSE IF ~NeighbourUsable(Wo[n], v) THEN acc
             ELSE <<Add(acc[1], Wo[n][v]), acc[2] + 1>>

\* The inner loop of the fallback over the slots of neighbour n.
RECURSIVE SecondRingOf(_, _, _, _, _)
SecondRingOf(Wo, n, v, k, acc) ==
    IF k = 0 THEN acc
    ELSE LET prev == SecondRingOf(Wo, n, v, k - 1, acc)
             nn == elem_neighbors[n][k - 1]
         IN  IF nn < 0 THEN prev
             ELSE IF ~NeighbourUsable(Wo[nn], v) THEN prev
             ELSE <<Add(prev[1], Wo[nn][v]), prev[2] + 1>>

\* The fallback loop, for the slots whose neighbour exists.
RECURSIVE SecondRing(_, _, _, _)
SecondRing(Wo, i, v, k) ==
    IF k = 0 THEN <<Zero, 0>>
    ELSE LET acc == SecondRing(Wo, i, v, k - 1)
             n == elem_neighbors[i][k - 1]
         IN  IF n < 0 THEN acc
             ELSE SecondRingOf(Wo, n, v, elem_n_faces[n], acc)

\* Faulty variant: the sum of the neighbour values is not divided by den.
CorrectionSum(Wo, i, v) ==
    LET first == FirstRing(Wo, i, v, elem_n_faces[i])
        used == IF first[2] = 0 THEN SecondRing(Wo, i, v, elem_n_faces[i])
                ELSE first
    IN  used[1]

\* correction / den for variable v of a flagged element i.
Correction(Wo, i, v) ==
    LET first == FirstRing(Wo, i, v, elem_n_faces[i])
        used == IF first[2] = 0 THEN SecondRing(Wo, i, v, elem_n_faces[i])
                ELSE first
    IN  Div(used[1], R(used[2]))

Corrected(Wc, Wo) ==
    [i \in Elements |->
        IF Flagged(Wc[i]) THEN [v \in Vars |-> Correction(Wo, i, v)] ELSE Wc[i]]

NumCorrections(Wc) == Cardinality({i \in Elements : Flagged(Wc[i])})

\* The fallback loop reads mesh.elements[n].n_faces before it tests n < 0:
\* with a boundary slot (n = -1) this is a read before the first element.
ReadsBeforeElements(Wc, Wo) ==
    \E i \in Elements, v \in Vars :
        /\ Flagged(Wc[i])
        /\ FirstRing(Wo, i, v, elem_n_faces[i])[2] = 0
        /\ \E k \in 0 .. (elem_n_faces[i] - 1) : elem_neighbors[i][k] < 0

TooManyCorrections(c) == Gt(R(c), Mul(Q(1, 10), R(mesh_n_boundaries)))

apply_corrections ==
    /\ pc = "apply_corrections"
    /\ \/ /\ ReadsBeforeElements(W, Wold)
          /\ Crashes
          /\ UNCHANGED <<W, stage, ops>>
       \/ /\ W' = Corrected(W, Wold)
          /\ ops' = Append(ops, "apply_corrections")
          /\ IF TooManyCorrections(NumCorrections(W))
             THEN /\ Fails
                  /\ UNCHANGED stage
             ELSE /\ stage' = stage + 1
                  /\ pc' = IF stage + 1 < input.time_stages
                           THEN FirstOfStage ELSE "output"
                  /\ UNCHANGED exit_status
    /\ UNCHANGED <<input, maxiter, face_flag, statusVars, stopped, inner_iter,
                   Wold, S, Wf, F, b, Wadv, stop_iter, written>>
    /\ UNCHANGED <<meshVars, bcVars, kernelVars>>

(***************************************************************************)
(* The program.                                                            *)
(***************************************************************************)
Next ==
    \/ signal_handler
    \/ set_initial_conditions
    \/ init_boundaries
    \/ save_initial_solution
    \/ begin_iteration
    \/ prepare_solution_update
    \/ update_timestep
    \/ update_sources
    \/ compute_gradients
    \/ reconstruction
    \/ compute_fluxes
    \/ apply_boundary_conditions
    \/ advance_solution
    \/ apply_corrections
    \/ periodic_output
    \/ end_solve
    \/ main_return

Spec == Init /\ [][Next]_vars

(***************************************************************************)
(* Properties.                                                             *)
(***************************************************************************)
RECURSIVE Repeat(_, _)
Repeat(seq, n) == IF n = 0 THEN <<>> ELSE seq \o Repeat(seq, n - 1)

IsPrefix(s, t) == Len(s) <= Len(t) /\ \A k \in 1 .. Len(s) : s[k] = t[k]

CountOp(seq, op) == Cardinality({k \in 1 .. Len(seq) : seq[k] = op})

\* The operations of one outer iteration with n stages, then its outputs.
ExpectedOps(n) ==
    <<"prepare_solution_update", "update_timestep", "update_sources">>
    \o Repeat(<<"compute_gradients", "reconstruction", "compute_fluxes",
                "apply_boundary_conditions", "advance_solution",
                "apply_corrections">>, n)
    \o <<"periodic_output">>

\* C1: in every outer iteration the operations run in the order snapshot,
\* timestep, sources, then per stage gradients, reconstruction, interior
\* fluxes, boundary fluxes, advance, correction; the periodic outputs come
\* only after the correction of the last stage.
C1_FixedOrder ==
    /\ IsPrefix(ops, ExpectedOps(input.time_stages))
    /\ pc \in BodyPcs \ {"output"} => pc = ExpectedOps(input.time_stages)[Len(ops) + 1]
    /\ pc = "output" => Len(ops) = 3 + 6 * input.time_stages

\* An iteration of two stages has run to its end, outputs included.
C1_Witness ==
    /\ input.time_stages = 2
    /\ ops = ExpectedOps(2)
    /\ written.solution >= 2

\* C2: when the stop flag is raised while an outer iteration runs, that
\* iteration completes all its stages, no further iteration starts, the final
\* solution and the restart file are written exactly once each and the
\* process exits with the success status.
C2_StopCompletes ==
    (stop_iter > 0 /\ pc = "exited") =>
        /\ exit_status = "success"
        /\ iteration = stop_iter
        /\ CountOp(ops, "apply_corrections") = input.time_stages
        /\ written.final_solution = 1
        /\ written.final_restart = 1

\* C3: after update_timestep the time does not exceed maxtime; when the CFL
\* timestep would pass maxtime, dt is exactly maxtime minus the time before
\* the step and the time is maxtime.
C3_TimeClamped ==
    [][(pc = "update_timestep" /\ pc' # pc) =>
          /\ Le(time', input.maxtime)
          /\ Gt(Add(time, dtconv'), input.maxtime) =>
                (dt' = Sub(input.maxtime, time) /\ time' = input.maxtime)]_vars

\* C4: an iteration begins only while iteration < maxiter, time < maxtime
\* and the stop flag is clear; the counter grows by exactly 1 per iteration,
\* only there, and never exceeds maxiter.
C4_BoundedIterations ==
    [][/\ pc' = "prepare_solution_update" /\ pc = "loop" =>
            /\ iteration < maxiter
            /\ Lt(time, input.maxtime)
            /\ ~stopped
            /\ iteration' = iteration + 1
       /\ (iteration' # iteration /\ pc # "set_initial_conditions") =>
            (pc = "loop" /\ pc' = "prepare_solution_update")
       /\ pc # "set_initial_conditions" =>
            (maxiter' = maxiter /\ iteration' <= maxiter)]_vars

\* The loop has ended because the iteration limit was reached.
C4_Witness ==
    /\ pc = "return"
    /\ iteration = maxiter
    /\ iteration >= 2
    /\ Lt(time, input.maxtime)
    /\ ~stopped

\* C5: the stage counter of advance_solution counts its calls modulo
\* time_stages: it is 0 when an outer iteration starts and equals the stage
\* index s whenever stage s is advanced, which therefore uses a[s].
C5_StageCounter ==
    /\ pc \in BodyPcs =>
          inner_iter = CountOp(ops, "advance_solution") % input.time_stages
    /\ pc \in {"loop", "prepare_solution_update", "update_timestep",
               "update_sources"} => inner_iter = 0
    /\ pc = "advance_solution" => (inner_iter = stage /\ stage < input.time_stages)

\* The second stage of a later iteration is about to be advanced.
C5_Witness ==
    /\ pc = "advance_solution"
    /\ iteration >= 2
    /\ stage = 1
    /\ inner_iter = 1

\* The six calls of a stage.
StagePcs ==
    {"compute_gradients", "reconstruction", "compute_fluxes",
     "apply_boundary_conditions", "advance_solution", "apply_corrections"}

\* source - sum of the element's own face fluxes.
Bracket(i, v) == Sub(S[i][v], FluxSum(F, i, v, elem_n_faces[i]))

StageResult(i, v, br) ==
    Add(Wold[i][v],
        Mul(Div(Mul(input.a[stage], dt), elem_volume[i]), br))

\* C6 as stated: every stage sets W = Wold + a[s]*dt/volume*(source - sum of
\* the element's own face fluxes), and no call of a stage modifies Wold or
\* the source array.
C6_StageUpdate ==
    [][/\ (pc = "advance_solution" /\ pc' # pc) =>
            \A i \in Elements, v \in Vars :
                W'[i][v] = StageResult(i, v, Bracket(i, v))
       /\ pc \in StagePcs => (Wold' = Wold /\ S' = S)]_vars

\* C6, amended: as above, with the bracket taken as 0 where it is NaN.
C6_StageUpdateGuarded ==
    [][/\ (pc = "advance_solution" /\ pc' # pc) =>
            \A i \in Elements, v \in Vars :
                W'[i][v] = StageResult(i, v, IF IsNaN(Bracket(i, v)) THEN Zero
                                             ELSE Bracket(i, v))
       /\ pc \in StagePcs => (Wold' = Wold /\ S' = S)]_vars

\* The second stage has been advanced from the snapshot with a bracket that
\* is not zero, the first stage having changed W.
C6_Witness ==
    /\ pc = "apply_corrections"
    /\ stage = 1
    /\ \E i \in Elements : b[i][0] # Zero /\ W[i][0] # Wold[i][0]

\* Physically valid: finite, positive density, energy not below kinetic.
Valid(w) == ~Flagged(w) /\ Gt(w[0], Zero)

\* The neighbour slots of element i whose element is not flagged in Wold.
ValidSlots(i) ==
    {k \in 0 .. (elem_n_faces[i] - 1) :
        elem_neighbors[i][k] >= 0 /\ ~Flagged(Wold[elem_neighbors[i][k]])}

RECURSIVE SlotSum(_, _, _)
SlotSum(i, v, slots) ==
    IF slots = {} THEN Zero
    ELSE LET k == CHOOSE x \in slots : TRUE
         IN  Add(Wold[elem_neighbors[i][k]][v], SlotSum(i, v, slots \ {k}))

MeanOfValid(i) ==
    [v \in Vars |-> Div(SlotSum(i, v, ValidSlots(i)), R(Cardinality(ValidSlots(i))))]

\* C7: apply_corrections replaces the state of each flagged element by the
\* unweighted mean of the Wold states of its valid immediate neighbours, the
\* same neighbours for all five variables.
C7_MeanOfValidNeighbours ==
    [][(pc = "apply_corrections" /\ ops' # ops) =>
          \A i \in Elements :
              (Flagged(W[i]) /\ ValidSlots(i) # {}) => W'[i] = MeanOfValid(i)]_vars

\* C8: a call of apply_corrections ends in the fatal error exactly when it
\* corrected more than 10% of the boundary-face count; otherwise it returns
\* and the iteration goes on.
C8_AbortAboveTenPercent ==
    [][(pc = "apply_corrections" /\ pc' # pc) =>
          IF 10 * NumCorrections(W) > mesh_n_boundaries
          THEN exit_status' = "failure"
          ELSE exit_status' = "running" /\ pc' \in {"compute_gradients", "output"}]_vars

Weights == {Zero, Q(1, 3), Half, Q(2, 3), R(1)}

NeighbourElements(i) ==
    {elem_neighbors[i][k] : k \in 0 .. (elem_n_faces[i] - 1)} \ {-1}

RECURSIVE WeightedSum(_, _, _)
WeightedSum(wt, v, ns) ==
    IF ns = {} THEN Zero
    ELSE LET n == CHOOSE x \in ns : TRUE
         IN  Add(Mul(wt[n], IF v < 0 THEN R(1) ELSE Wold[n][v]),
                 WeightedSum(wt, v, ns \ {n}))

\* w is a convex combination of the Wold states of the neighbours of i.
IsConvexCombination(w, i) ==
    \E wt \in [NeighbourElements(i) -> Weights] :
        /\ WeightedSum(wt, -1, NeighbourElements(i)) = R(1)
        /\ \A v \in Vars : w[v] = WeightedSum(wt, v, NeighbourElements(i))

\* Element i alone has a negative density; every other element is valid in
\* W and in Wold.
SingleNegativeDensity(Wc, i) ==
    /\ Lt(Wc[i][0], Zero)
    /\ \A j \in Elements \ {i} : Valid(Wc[j]) /\ Valid(Wold[j])

\* C9: when a single element has a negative density and every other element
\* is valid, one call of apply_corrections leaves it with a convex
\* combination of its (valid) neighbours' states and a positive density.
C9_NegativeDensityRepaired ==
    [][\A i \in Elements :
          (pc = "apply_corrections" /\ pc' # pc /\ SingleNegativeDensity(W, i)) =>
              /\ IsConvexCombination(W'[i], i)
              /\ Valid(W'[i])]_vars

\* An update has driven one element of a valid field to a negative density
\* and the correction has replaced it.
C9_Witness ==
    /\ ops # <<>>
    /\ ops[Len(ops)] = "apply_corrections"
    /\ \E i \in Elements :
          /\ SingleNegativeDensity(Wadv, i)
          /\ Valid(Wold[i])
          /\ Cardinality(NeighbourElements(i)) = 2
          /\ Gt(W[i][0], Zero)

\* C10: a boundary face with an unset or out-of-range tag is never fatal,
\* and whenever apply_boundary_conditions runs every boundary face's flag
\* indexes an existing boundary definition.
C10_FlagsIndexBoundaries ==
    /\ pc = "apply_boundary_conditions" =>
          \A f \in BoundaryFaces :
              0 <= face_flag[f] /\ face_flag[f] < Len(input.bctype)
    /\ (exit_status = "failure" /\ ops = <<>> /\ input.restart # "bad") =>
          \E k \in 1 .. Len(input.bctype) : input.bctype[k] \notin KnownTypes

(***************************************************************************)
(* read_mesh: elements, half-faces, connectivity, boundary assignment.     *)
(***************************************************************************)
\* Largest number of element lines in the mesh file.
MaxElems == 3

\* enum class ElementType.
POINT == 0
LINEAR == 1
TRIA == 2
TETRA == 4

\* Positions of the nodes 0..3 of the mesh file (z = 0).
NodePos == <<<<0, 0>>, <<3, 0>>, <<0, 4>>, <<6, 0>>>>

\* One line of the $Elements section: type, tags, node indices (0-based).
Line(ty, tg, nd) == [type |-> ty, tags |-> tg, nodes |-> nd]

FileLines ==
    {Line(TRIA, <<>>, <<0, 1, 2>>), Line(TRIA, <<>>, <<1, 3, 2>>),
     Line(TRIA, <<>>, <<0, 3, 2>>), Line(TRIA, <<>>, <<0, 1, 0>>),
     Line(LINEAR, <<>>, <<0, 1>>), Line(LINEAR, <<5>>, <<0, 1>>),
     Line(LINEAR, <<7, 1>>, <<2, 1>>),
     Line(POINT, <<1>>, <<0>>), Line(POINT, <<2>>, <<3>>),
     Line(TETRA, <<>>, <<0, 1, 2, 3>>)}

RECURSIVE SeqsUpTo(_, _)
SeqsUpTo(A, n) ==
    IF n = 0 THEN {<<>>}
    ELSE LET shorter == SeqsUpTo(A, n - 1)
         IN  shorter \cup {Append(s, x) : s \in shorter, x \in A}

\* The lines from which the longest files are made.
CoreLines ==
    {Line(TRIA, <<>>, <<0, 1, 2>>), Line(TRIA, <<>>, <<1, 3, 2>>),
     Line(LINEAR, <<5>>, <<0, 1>>), Line(LINEAR, <<7, 1>>, <<2, 1>>),
     Line(POINT, <<1>>, <<0>>)}

\* dim_ == 3 ? 3 : dim_ == 0 ? 1 : 2
TargetDimension(d) == IF d = 3 THEN 3 ELSE IF d = 0 THEN 1 ELSE 2

\* The switch of read_elements: nodes, faces and dimension of a type.
TypeFaces(ty) == CASE ty = POINT -> 0 [] ty = LINEAR -> 2 [] ty = TRIA -> 3
                   [] OTHER -> 4

TypeDimension(ty) == CASE ty = POINT -> 0 [] ty = LINEAR -> 1 [] ty = TRIA -> 2
                       [] OTHER -> 3

\* Largest number of half-faces of the cells of a mesh file.
MaxDraws == 6

\* The number of half-faces compute_faces makes for the lines ls: those of
\* the elements of the target dimension.
RECURSIVE HalfFaces(_, _)
HalfFaces(ls, dim) ==
    IF ls = <<>> THEN 0
    ELSE HalfFaces(Tail(ls), dim)
         + (IF TypeDimension(Head(ls).type) = dim
            THEN TypeFaces(Head(ls).type) ELSE 0)

\* The mesh file with input.physics.dimension, input.mesh.min_volume and
\* input.bc.n_boundaries (boundaries without a box: every face lies inside).
MeshFiles ==
    {[lines |-> l, dimension |-> d, min_volume |-> mv, n_boundaries |-> nb]
        : l \in SeqsUpTo(FileLines, 2), d \in {0, 2},
          mv \in {R(0), R(3), R(6)}, nb \in {0, 2}}
    \cup {[lines |-> l, dimension |-> d, min_volume |-> mv, n_boundaries |-> 0]
            : l \in {x \in SeqsUpTo(CoreLines, MaxElems) :
                        \A dd \in {1, 2} : HalfFaces(x, dd) <= MaxDraws},
              d \in {0, 2}, mv \in {R(0), R(6)}}

EmptyMesh ==
    [n_elements |-> 0, n_faces |-> 0, n_boundaries |-> 0,
     elements |-> <<>>, faces |-> <<>>]

\* The solver is not being followed.
SolverIdle ==
    /\ input = BaseInput
    /\ pc = "idle"
    /\ maxiter = 0
    /\ face_flag = BaseInput.tags
    /\ iteration = 0
    /\ time = Zero
    /\ dt = Zero
    /\ cfl = Zero
    /\ stopped = FALSE
    /\ dtconv = Zero
    /\ stage = 0
    /\ inner_iter = 0
    /\ W = Uniform(ZeroState)
    /\ Wold = Uniform(ZeroState)
    /\ S = Uniform(ZeroState)
    /\ b = Uniform(ZeroState)
    /\ Wf = [f \in Faces |-> ZeroState]
    /\ F = [f \in Faces |-> ZeroState]
    /\ Wadv = Uniform(ZeroState)
    /\ ops = <<>>
    /\ stop_iter = 0
    /\ written = [solution |-> 0, restart |-> 0, probes |-> 0, reports |-> 0,
                  final_solution |-> 0, final_restart |-> 0]
    /\ exit_status = "idle"

InitReadMesh ==
    /\ mesh_file \in MeshFiles
    /\ mesh_pc = "read_elements"
    /\ mesh = EmptyMesh
    /\ mesh_exit = "running"
    /\ mesh_fatal = "none"
    /\ SolverIdle
    /\ BoundaryIdle
    /\ KernelIdle

\* A std::exception thrown outside a parallel region reaches the catch
\* clause of main.
MeshFails(what) ==
    /\ mesh_pc' = "exited"
    /\ mesh_exit' = "failure"
    /\ mesh_fatal' = what

\* An exception thrown inside "#pragma omp parallel for" and not caught
\* there: the build without OpenMP unwinds to main, the build with OpenMP
\* calls std::terminate.
MeshThrowsInParallel(what) ==
    /\ mesh_pc' = "exited"
    /\ mesh_exit' \in {"failure", "terminated"}
    /\ mesh_fatal' = what

read_elements ==
    /\ mesh_pc = "read_elements"
    /\ IF Len(mesh_file.lines) <= 0
       THEN /\ MeshFails("No elements found.")
            /\ UNCHANGED mesh
       ELSE /\ mesh' =
                 [mesh EXCEPT
                    !.n_elements = Len(mesh_file.lines),
                    !.elements =
                       [i \in 1 .. Len(mesh_file.lines) |->
                          LET l == mesh_file.lines[i]
                          IN  [id |-> i, type |-> l.type,
                               dimension |-> TypeDimension(l.type),
                               tags |-> l.tags, nodes |-> l.nodes,
                               n_nodes |-> Len(l.nodes),
                               n_faces |-> TypeFaces(l.type),
                               boundary |-> FALSE, volume |-> Zero,
                               faces |-> <<>>, neighbors |-> <<>>]]]
            /\ mesh_pc' = "compute_elements"
            /\ UNCHANGED <<mesh_exit, mesh_fatal>>
    /\ UNCHANGED <<mesh_file, solverVars, bcVars, kernelVars>>

\* math::distance of two nodes and the norm of tria_vector of three.
NodeDistance(a, c) ==
    LET dx == NodePos[c + 1][1] - NodePos[a + 1][1]
        dy == NodePos[c + 1][2] - NodePos[a + 1][2]
    IN  Sqrt(R(dx * dx + dy * dy))

TriaArea(a, c, e) ==
    LET v1 == <<NodePos[c + 1][1] - NodePos[a + 1][1],
                NodePos[c + 1][2] - NodePos[a + 1][2]>>
        v2 == <<NodePos[e + 1][1] - NodePos[a + 1][1],
                NodePos[e + 1][2] - NodePos[a + 1][2]>>
        cz == Mul(Half, R(v1[1] * v2[2] - v1[2] * v2[1]))
    IN  Sqrt(Mul(cz, cz))

\* The switch on elem.type of compute_elements.
ElementVolume(e) ==
    CASE e.type = POINT -> R(1)
      [] e.type = LINEAR -> NodeDistance(e.nodes[1], e.nodes[2])
      [] e.type = TRIA -> TriaArea(e.nodes[1], e.nodes[2], e.nodes[3])
      [] OTHER -> Zero

\* The three tests at the head of the parallel loop of compute_elements.
InvalidDimension(e, dim) ==
    \/ e.dimension > dim
    \/ e.dimension < dim - 1
    \/ (e.dimension = dim - 1 /\ Len(e.tags) = 0)

\* volumes[i] as the parallel loop leaves it: a boundary element takes the
\* continue before its entry is written, so the entry keeps its initial 0.0.
VolumeEntry(e) == IF e.boundary THEN Zero ELSE e.volume

\* min_volume = volumes[0]; then the elements 1.. that are not boundary.
RECURSIVE MinVolume(_, _)
MinVolume(es, k) ==
    IF k = 1 THEN VolumeEntry(es[1])
    ELSE LET prev == MinVolume(es, k - 1)
         IN  IF es[k].boundary THEN prev
             ELSE IF Lt(VolumeEntry(es[k]), prev) THEN VolumeEntry(es[k])
             ELSE prev

compute_elements ==
    /\ mesh_pc = "compute_elements"
    /\ LET dim == TargetDimension(mesh_file.dimension)
           es == [i \in 1 .. mesh.n_elements |->
                    LET e == mesh.elements[i]
                    IN  IF e.dimension = dim - 1
                        THEN [e EXCEPT !.boundary = TRUE, !.n_faces = 0]
                        ELSE [e EXCEPT !.volume = ElementVolume(e)]]
       IN  IF \E i \in 1 .. mesh.n_elements :
                 InvalidDimension(mesh.elements[i], dim)
           THEN /\ MeshThrowsInParallel("Invalid element dimension.")
                /\ UNCHANGED mesh
           ELSE IF Lt(MinVolume(es, mesh.n_elements), mesh_file.min_volume)
           THEN /\ MeshFails("Minimum cell volume is too small")
                /\ mesh' = [mesh EXCEPT !.elements = es]
           ELSE /\ mesh' = [mesh EXCEPT !.elements = es]
                /\ mesh_pc' = "compute_faces"
                /\ UNCHANGED <<mesh_exit, mesh_fatal>>
    /\ UNCHANGED <<mesh_file, solverVars, bcVars, kernelVars>>

\* std::sort of a vector of node indices.
RECURSIVE InsertSorted(_, _)
InsertSorted(s, x) ==
    IF s = <<>> THEN <<x>>
    ELSE IF x <= Head(s) THEN <<x>> \o s
    ELSE <<Head(s)>> \o InsertSorted(Tail(s), x)

RECURSIVE SortNodes(_)
SortNodes(s) ==
    IF s = <<>> THEN <<>> ELSE InsertSorted(SortNodes(Tail(s)), Head(s))

\* The nodes of half-face f (0-based) of an element, by the switch of
\* compute_faces.
HalfFaceNodes(e, f) ==
    CASE e.type = LINEAR -> <<e.nodes[f + 1]>>
      [] e.type = TRIA -> <<e.nodes[f + 1], e.nodes[((f + 1) % e.n_nodes) + 1]>>
      [] OTHER -> <<>>

\* The orders in which the iterations of the parallel loop of compute_faces
\* can execute "local_id = id++": o[d] is the element that makes draw d.
\* Every element makes n_faces draws, in the order of its faces.
RECURSIVE Draws(_, _)
Draws(left, n) ==
    IF \A i \in 1 .. n : left[i] = 0 THEN {<<>>}
    ELSE UNION {{<<i>> \o s : s \in Draws([left EXCEPT ![i] = @ - 1], n)}
                   : i \in {j \in 1 .. n : left[j] > 0}}

Orders(es) == Draws([i \in 1 .. Len(es) |-> es[i].n_faces], Len(es))

\* Faulty variant: the counter is read and written in two steps, so a draw
\* that follows the draw of another element sees the value that one saw.
RacyId(o, d) == IF d > 1 /\ o[d] # o[d - 1] THEN d - 2 ELSE d - 1

\* "#pragma omp atomic capture  local_id = id++": draw d takes the value the
\* counter has after the d - 1 draws before it.
FirstId(o, d) == d - 1

\* The face (0-based) of its element that draw d works on.
LocalFace(o, d) == Cardinality({j \in 1 .. d : o[j] = o[d]}) - 1

\* elem.faces of element i (0-based ids).
FacesOfElement(es, o, i) ==
    [f \in 1 .. es[i].n_faces |->
        FirstId(o, CHOOSE d \in 1 .. Len(o) :
                      o[d] = i /\ LocalFace(o, d) = f - 1)]

\* A value-initialised Face.
DefaultFace ==
    [id |-> -1, owner |-> -1, nodes |-> <<>>, neighbor |-> -1,
     opposite |-> -1, flag |-> -1]

\* mesh.faces as the parallel loop of compute_faces leaves it: slot k holds
\* what the last draw that took id k - 1 wrote.
NewFaces(es, o) ==
    [k \in 1 .. Len(o) |->
        LET ds == {d \in 1 .. Len(o) : FirstId(o, d) = k - 1}
        IN  IF ds = {} THEN DefaultFace
            ELSE LET d == CHOOSE x \in ds : \A y \in ds : y <= x
                 IN  [DefaultFace EXCEPT
                        !.id = k - 1, !.owner = o[d] - 1,
                        !.nodes = HalfFaceNodes(es[o[d]], LocalFace(o, d))]]

\* Faulty variant: a matched pair is linked in one direction only.
RECURSIVE LinkOneWay(_, _, _)
LinkOneWay(fs, i, map) ==
    IF i > Len(fs) THEN fs
    ELSE LET key == SortNodes(fs[i].nodes)
             hit == {e \in map : e[1] = key}
         IN  IF hit = {} THEN LinkOneWay(fs, i + 1, map \cup {<<key, i>>})
             ELSE LET o == (CHOOSE e \in hit : TRUE)[2]
                  IN  LinkOneWay([fs EXCEPT ![i].neighbor = fs[o].owner,
                                            ![i].opposite = fs[o].id],
                                 i + 1, map \ hit)

\* The first loop of compute_face_connectivity from face i on; map is
\* face_map, a set of <<sorted nodes, position of the face>>.
RECURSIVE Link(_, _, _)
Link(fs, i, map) ==
    IF i > Len(fs) THEN fs
    ELSE LET key == SortNodes(fs[i].nodes)
             hit == {e \in map : e[1] = key}
         IN  IF hit = {} THEN Link(fs, i + 1, map \cup {<<key, i>>})
             ELSE LET o == (CHOOSE e \in hit : TRUE)[2]
                  IN  Link([fs EXCEPT ![i].neighbor = fs[o].owner,
                                      ![o].neighbor = fs[i].owner,
                                      ![i].opposite = fs[o].id,
                                      ![o].opposite = fs[i].id],
                           i + 1, map \ hit)

\* compute_faces, compute_face_connectivity included.
compute_faces ==
    /\ mesh_pc = "compute_faces"
    /\ \E o \in Orders(mesh.elements) :
          LET es == mesh.elements
              fs == Link(NewFaces(es, o), 1, {})
          IN  mesh' =
                [mesh EXCEPT
                   !.n_faces = Len(fs),
                   !.faces = fs,
                   !.elements =
                      [i \in 1 .. Len(es) |->
                         [es[i] EXCEPT
                            !.faces = FacesOfElement(es, o, i),
                            !.neighbors =
                               [f \in 1 .. es[i].n_faces |->
                                  fs[FacesOfElement(es, o, i)[f] + 1].neighbor]]]]
    /\ mesh_pc' = "assign_boundaries"
    /\ UNCHANGED <<mesh_file, mesh_exit, mesh_fatal, solverVars, bcVars, kernelVars>>

\* Mesh::init_boundaries with boundaries that keep their default box: the
\* last boundary contains every face centroid.
BoxFlag(fl, nb) == IF nb > 0 THEN nb - 1 ELSE fl

\* face_map of assign_boundaries: the last face with the sorted nodes key,
\* or 0 when no face has them.
LastFaceWith(fs, key) ==
    LET hits == {k \in 1 .. Len(fs) : SortNodes(fs[k].nodes) = key}
    IN  IF hits = {} THEN 0 ELSE CHOOSE k \in hits : \A j \in hits : j <= k

\* The loop over the boundary elements from element i on.
RECURSIVE TagFaces(_, _, _)
TagFaces(fs, es, i) ==
    IF i > Len(es) THEN fs
    ELSE LET k == LastFaceWith(fs, SortNodes(es[i].nodes))
         IN  IF es[i].boundary /\ k # 0
             THEN TagFaces([fs EXCEPT ![k].flag = es[i].tags[1]], es, i + 1)
             ELSE TagFaces(fs, es, i + 1)

\* Faulty variant: the boundary elements stay in the list.
EraseNothing(es) == es

\* std::remove_if followed by erase: the elements that are not boundary, in
\* their order.
RECURSIVE EraseBoundary(_)
EraseBoundary(es) ==
    IF es = <<>> THEN <<>>
    ELSE IF Head(es).boundary THEN EraseBoundary(Tail(es))
    ELSE <<Head(es)>> \o EraseBoundary(Tail(es))

assign_boundaries ==
    /\ mesh_pc = "assign_boundaries"
    /\ LET boxed == [k \in 1 .. mesh.n_faces |->
                       [mesh.faces[k] EXCEPT
                          !.flag = BoxFlag(@, mesh_file.n_boundaries)]]
           kept == EraseBoundary(mesh.elements)
       IN  mesh' =
             [mesh EXCEPT
                !.n_boundaries =
                   Cardinality({k \in 1 .. mesh.n_faces :
                                   mesh.faces[k].neighbor = -1}),
                !.faces = TagFaces(boxed, mesh.elements, 1),
                !.elements = kept,
                !.n_elements = Len(kept)]
    /\ mesh_pc' = "compute_distances"
    /\ UNCHANGED <<mesh_file, mesh_exit, mesh_fatal, solverVars, bcVars, kernelVars>>

\* compute_distances reads mesh.elements[j] for a neighbour index j.
NeighbourPastEnd ==
    \E i \in 1 .. mesh.n_elements :
        \E f \in 1 .. Len(mesh.elements[i].neighbors) :
            mesh.elements[i].neighbors[f] >= mesh.n_elements

\* compute_normals and compute_distances end read_mesh.  A neighbour index
\* at or past the end of the element list is an out-of-bounds read: the
\* process faults or goes on with what the memory holds.
compute_distances ==
    /\ mesh_pc = "compute_distances"
    /\ \/ /\ mesh_pc' = "loaded"
          /\ mesh_exit' = "loaded"
       \/ /\ NeighbourPastEnd
          /\ mesh_pc' = "exited"
          /\ mesh_exit' = "crashed"
    /\ UNCHANGED <<mesh_file, mesh, mesh_fatal, solverVars, bcVars, kernelVars>>

NextReadMesh ==
    \/ read_elements
    \/ compute_elements
    \/ compute_faces
    \/ assign_boundaries
    \/ compute_distances

SpecReadMesh == InitReadMesh /\ [][NextReadMesh]_vars

(***************************************************************************)
(* Boundary configuration faults and wall fluxes in the solver.            *)
(***************************************************************************)
HasUnknownType ==
    \E k \in 1 .. Len(input.bctype) :
        input.bctype[k] \notin SUPERSONIC_INLET .. AXIS

\* C11: with a configured boundary of unknown type the run never gets past
\* init_boundaries: the step of init_boundaries ends the run with the fatal
\* error, and no operation of the time loop is ever executed, whether or not
\* a face is assigned to that boundary.
C11_UnknownTypeFatal ==
    [][HasUnknownType =>
         /\ pc' \in {"set_initial_conditions", "init_boundaries", "exited"}
         /\ ops' = <<>>
         /\ iteration' = iteration
         /\ (pc = "init_boundaries" /\ pc' # pc) =>
               (pc' = "exited" /\ exit_status' = "failure")]_vars

\* The unknown type is the second boundary and no face carries its index.
C11_Witness ==
    /\ pc = "exited"
    /\ exit_status = "failure"
    /\ Len(input.bctype) = 2
    /\ input.bctype[2] = UnknownType
    /\ \A f \in BoundaryFaces : face_flag[f] = 0

\* The boundary faces whose boundary definition exists and is of a type in T.
FacesOfType(T) ==
    {f \in BoundaryFaces : FlagInRange(f) /\ input.bctype[face_flag[f] + 1] \in T}

\* (gamma - 1)*(E - 0.5*rho*(u*u + v*v + w*w)) of a face state.
RawPressure(w) ==
    LET u == Div(w[1], w[0])
        v == Div(w[2], w[0])
        ww == Div(w[3], w[0])
        q == Add(Add(Mul(u, u), Mul(v, v)), Mul(ww, ww))
    IN  Mul(Sub(gamma, R(1)), Sub(w[4], Mul(Mul(Half, w[0]), q)))

FlooredPressure(w) ==
    IF Lt(RawPressure(w), Zero) THEN PressureFloor ELSE RawPressure(w)

WallFluxIs(f, p) ==
    /\ F[f][0] = Zero
    /\ F[f][4] = Zero
    /\ \A d \in 1 .. 3 : F[f][d] = Mul(face_area[f], Mul(p, face_normal[f][d]))

\* C13 as stated: right after apply_boundary_conditions every face of a wall,
\* slip wall, moving wall or symmetry boundary has zero mass and energy flux
\* and the momentum flux area * pressure * normal, the pressure being that of
\* the face state.
C13_WallFlux ==
    pc = "advance_solution" =>
        \A f \in FacesOfType(WallTypes) : WallFluxIs(f, RawPressure(Wf[f]))

\* C13 amended: the same with the pressure of the face state replaced by
\* 1.0e-14 when it is negative.
C13_WallFluxFloored ==
    pc = "advance_solution" =>
        \A f \in FacesOfType(WallTypes) : WallFluxIs(f, FlooredPressure(Wf[f]))

\* The second stage of the second iteration has set the fluxes of a boundary
\* that is not of type WALL, with a positive pressure.
C13_Witness ==
    /\ pc = "advance_solution"
    /\ iteration = 2
    /\ stage = 1
    /\ \E f \in FacesOfType(WallTypes \ {WALL}) :
          /\ Gt(RawPressure(Wf[f]), Zero)
          /\ F[f][1] # Zero

\* C14: the five flux components of every face of an axis boundary are zero
\* in every state of the run.
C14_AxisFluxZero ==
    \A f \in FacesOfType({AXIS}) : F[f] = ZeroState

\* The boundary pass of the second iteration has gone over the faces of an
\* axis boundary whose face states are not zero.
C14_Witness ==
    /\ pc = "advance_solution"
    /\ iteration = 2
    /\ FacesOfType({AXIS}) # {}
    /\ \A f \in FacesOfType({AXIS}) : Wf[f] # ZeroState

(***************************************************************************)
(* Inlet and outlet boundary functions, followed for one boundary through  *)
(* its initialisation and one call on a face.                              *)
(***************************************************************************)
\* input.fluid.R of the configurations followed here.
fluid_R == R(1)

\* The literal 1.0e-14 of the boundary functions.
Tiny == PressureFloor

\* An angle of the configuration: the number written in the file and how
\* many times it has been multiplied by PI/180.
Angle(d) == [deg |-> d, conv |-> 0]

Degrees == {0, 90, 180}

\* x *= PI / 180.0
ToRadians(x) == [x EXCEPT !.conv = @ + 1]

\* std::cos of the number the angle holds, to the nearest 1/16: of 90 and
\* 180 degrees once converted, of 90 and 180 radians when not converted.
Cos(x) ==
    CASE x.deg = 0 -> R(1)
      [] x.deg = 90 /\ x.conv = 0 -> Q(-7, 16)
      [] x.deg = 90 /\ x.conv = 1 -> Zero
      [] x.deg = 180 /\ x.conv = 0 -> Q(-5, 8)
      [] x.deg = 180 /\ x.conv = 1 -> R(-1)
      [] OTHER -> R(1)

\* std::sin, likewise.
Sin(x) ==
    CASE x.deg = 0 -> Zero
      [] x.deg = 90 /\ x.conv = 0 -> Q(7, 8)
      [] x.deg = 90 /\ x.conv = 1 -> R(1)
      [] x.deg = 180 /\ x.conv = 0 -> Q(-13, 16)
      [] x.deg = 180 /\ x.conv = 1 -> Zero
      [] OTHER -> Zero

\* std::pow for the exponents that gamma = 2 produces.
Pow(x, e) ==
    CASE e = Q(1, 4) -> Sqrt(Sqrt(x))
      [] e = Q(1, 2) -> Sqrt(x)
      [] e = R(1) -> x
      [] e = R(2) -> Mul(x, x)

\* Boundary with its user values; value[3] and value[4] are the angles.
Bnd(t, v0, v1, v2, al, ph) ==
    [type |-> t,
     value |-> [k \in 0 .. 4 |-> CASE k = 0 -> v0 [] k = 1 -> v1 [] k = 2 -> v2
                                   [] k = 3 -> Angle(al) [] k = 4 -> Angle(ph)],
     state |-> ZeroState]

\* The boundaries of the configurations: supersonic inlets (Mach number,
\* pressure, temperature, angles), stagnation inlets (total enthalpy, total
\* pressure, supersonic static pressure, angles) and pressure outlets.
Boundaries ==
    {Bnd(SUPERSONIC_INLET, R(2), R(4), R(2), al, ph) : al \in Degrees, ph \in {0, 90}}
    \cup {Bnd(STAGNATION_INLET, h[1], h[2], h[3], al, 0)
            : h \in {<<R(12), R(36), R(4)>>, <<R(1), R(9), R(1)>>}, al \in Degrees}
    \cup {Bnd(PRESSURE_OUTLET, pb, Zero, Zero, 0, 0) : pb \in {R(1), R(16)}}

\* Reconstructed face states: density 2, pressure p, velocity (u, v, 0).
FaceState(p, u, v) ==
    St(R(2), Mul(R(2), u), Mul(R(2), v), Zero, Add(p, Add(Mul(u, u), Mul(v, v))))

FaceStates ==
    {FaceState(R(1), u, v)
        : u \in {R(-3), R(-1), Q(-1, 2), Zero, Q(1, 2), R(1), R(3)},
          v \in {Zero, R(1)}}
    \cup {St(R(2), R(1), Zero, Zero, Zero), St(R(2), R(-1), Zero, Zero, Zero),
          St(R(2), Zero, Zero, Zero, Zero)}

Normals == {UnitX, NegVec(UnitX)}

InitBoundary ==
    /\ bc_pc = "init_boundaries"
    /\ bc \in Boundaries
    /\ variant \in {1, 2}
    /\ bface = <<>>
    /\ bW = <<>>
    /\ bF = <<>>
    /\ regime = "none"
    /\ trig = {}
    /\ SolverIdle
    /\ MeshIdle
    /\ KernelIdle

\* bc::init_supersonic_inlet
init_supersonic_inlet ==
    /\ bc_pc = "init_boundaries"
    /\ bc.type = SUPERSONIC_INLET
    /\ LET M == bc.value[0]
           p == bc.value[1]
           T == bc.value[2]
           alpha == bc.value[3]
           phi == bc.value[4]
           V == Mul(M, Sqrt(Mul(Mul(gamma, fluid_R), T)))
           rho == Div(Div(p, fluid_R), T)
           u == Mul(Mul(V, Cos(alpha)), Cos(phi))
           v == Mul(Mul(V, Sin(alpha)), Cos(phi))
           w == Mul(V, Sin(phi))
           E == Add(Div(p, Sub(gamma, R(1))), Mul(Mul(Half, rho), Mul(V, V)))
       IN  /\ bc' = [bc EXCEPT !.state = St(rho, u, v, w, E)]
           /\ trig' = trig \cup {alpha, phi}
    /\ bc_pc' = "apply"
    /\ UNCHANGED <<bface, bW, bF, variant, regime, solverVars, meshVars,
                   kernelVars>>

\* bc.state of a stagnation inlet once the Mach number M, the temperature T
\* and the angles in radians are known.
StagnationState(M, T, alpha, phi) ==
    LET Psup == bc.value[2]
        rho == Div(Div(Psup, T), fluid_R)
        V == Mul(M, Sqrt(Div(Mul(gamma, Psup), rho)))
    IN  St(rho, Mul(Mul(V, Cos(alpha)), Cos(phi)),
           Mul(Mul(V, Sin(alpha)), Cos(phi)), Mul(V, Sin(phi)),
           Add(Div(Psup, Sub(gamma, R(1))), Mul(Mul(Half, rho), Mul(V, V))))

StagnationFromMach(M, alpha, phi) ==
    StagnationState(M,
        Div(Div(bc.value[0], Mul(fluid_R, Div(gamma, Sub(gamma, R(1))))),
            Add(R(1), Mul(Mul(Half, Sub(gamma, R(1))), Mul(M, M)))),
        alpha, phi)

\* sqrt(gam2 * (pow(Ptot / Psup, 1.0 / gam3) - 1.0))
StagnationMach ==
    Sqrt(Mul(Div(R(2), Sub(gamma, R(1))),
             Sub(Pow(Div(bc.value[1], bc.value[2]),
                     Div(R(1), Div(gamma, Sub(gamma, R(1))))), R(1))))

\* bc::init_stagnation_inlet
init_stagnation_inlet ==
    /\ bc_pc = "init_boundaries"
    /\ bc.type = STAGNATION_INLET
    /\ \E alpha \in {ToRadians(bc.value[3])}, phi \in {ToRadians(bc.value[4])} :
          /\ bc' = [bc EXCEPT !.value[3] = alpha, !.value[4] = phi,
                              !.state = StagnationFromMach(StagnationMach, alpha, phi)]
          /\ trig' = trig \cup {alpha, phi}
    /\ bc_pc' = "apply"
    /\ UNCHANGED <<bface, bW, bF, variant, regime, solverVars, meshVars,
                   kernelVars>>

\* The PRESSURE_OUTLET case of init_boundaries prepares nothing.
init_pressure_outlet ==
    /\ bc_pc = "init_boundaries"
    /\ bc.type = PRESSURE_OUTLET
    /\ bc_pc' = "apply"
    /\ UNCHANGED <<bc, bface, bW, bF, variant, regime, trig, solverVars, meshVars,
                   kernelVars>>

\* The state a boundary function reads from Wf(f, .), with the pressure
\* floor, and the normal velocity.
Interior(w, n) ==
    LET rho == w[0]
        u == Div(w[1], rho)
        v == Div(w[2], rho)
        ww == Div(w[3], rho)
    IN  [rho |-> rho, u |-> u, v |-> v, w |-> ww, E |-> w[4],
         p |-> Pressure(w), un |-> Dot(<<u, v, ww>>, n)]

\* std::sqrt(gamma * p / rho)
FaceSoundSpeed(st) == Sqrt(Div(Mul(gamma, st.p), st.rho))

\* The five assignments to F(f, .) that end every boundary function.
FluxOf(st, n) ==
    St(Mul(st.rho, st.un),
       Add(Mul(st.p, n[1]), Mul(Mul(st.rho, st.u), st.un)),
       Add(Mul(st.p, n[2]), Mul(Mul(st.rho, st.v), st.un)),
       Add(Mul(st.p, n[3]), Mul(Mul(st.rho, st.w), st.un)),
       Mul(Add(st.E, st.p), st.un))

\* The imposed state once the boundary density and normal velocity are known.
ImposedState(st, rhob, unb, pb, gam, n, t1, t2) ==
    LET vel == <<st.u, st.v, st.w>>
        ut1 == Dot(vel, t1)
        ut2 == Dot(vel, t2)
        ubx == Add(Add(Mul(n[1], unb), Mul(t1[1], ut1)), Mul(t2[1], ut2))
        uby == Add(Add(Mul(n[2], unb), Mul(t1[2], ut1)), Mul(t2[2], ut2))
        ubz == Add(Add(Mul(n[3], unb), Mul(t1[3], ut1)), Mul(t2[3], ut2))
        V2 == Add(Add(Mul(ubx, ubx), Mul(uby, uby)), Mul(ubz, ubz))
    IN  [rho |-> rhob, u |-> ubx, v |-> uby, w |-> ubz,
         E |-> Add(Div(pb, Sub(gam, R(1))), Mul(Mul(Half, rhob), V2)),
         p |-> pb, un |-> unb]

\* The imposed state once the boundary sound speed ab is known.
ImposedFrom(st, a, ab, pb, gam, n, t1, t2) ==
    ImposedState(st, Div(Mul(gam, pb), Mul(ab, ab)),
                 Add(st.un, Mul(Div(R(2), Sub(gam, R(1))), Sub(a, ab))),
                 pb, gam, n, t1, t2)

\* The state with pressure pb imposed through the Riemann invariant, gam
\* being the ratio of specific heats used and ex the exponent of pb / p.
Imposed(st, a, pb, gam, ex, n, t1, t2) ==
    ImposedFrom(st, a, Mul(a, Pow(Div(pb, st.p), ex)), pb, gam, n, t1, t2)

\* Faulty variant: the exit pressure is imposed at un = a as well.
OutletBranchInclusive(vt, un, a) ==
    IF vt = 2 /\ Lt(un, Tiny) THEN "reverse"
    ELSE IF Le(un, a) THEN "impose"
    ELSE "extrapolate"

\* The branch pressure_outlet takes: definition 1 tests un < a only,
\* definition 2 tests un < 1.0e-14 first.
OutletBranch(vt, un, a) ==
    IF vt = 2 /\ Lt(un, Tiny) THEN "reverse"
    ELSE IF Lt(un, a) THEN "impose"
    ELSE "extrapolate"

\* The assignments a boundary function makes for face state w and normal n,
\* having taken branch br and built the state out.
WritesFlux(w, n, br, out) ==
    /\ bface' = [Wf |-> w, normal |-> n]
    /\ bW' = out
    /\ bF' = FluxOf(out, n)
    /\ regime' = br

\* The state of pressure_outlet in branch br, gam being the ratio of
\* specific heats used.
OutletState(st, a, n, br, gam) ==
    CASE br = "impose" ->
            Imposed(st, a, bc.value[0], gam,
                    Div(Sub(gam, R(1)), Mul(R(2), gam)), n, UnitY, UnitZ)
      [] br = "reverse" -> [st EXCEPT !.un = Zero]
      [] OTHER -> st

\* Definition 1 recomputes the ratio of specific heats as a*a*rho/p,
\* definition 2 takes input.fluid.gamma.
OutletGamma(st, a) ==
    IF variant = 1 THEN Div(Mul(Mul(a, a), st.rho), st.p) ELSE gamma

OutletOnFace(w, n, st, a) ==
    WritesFlux(w, n, OutletBranch(variant, st.un, a),
               OutletState(st, a, n, OutletBranch(variant, st.un, a),
                           OutletGamma(st, a)))

\* bc::pressure_outlet on a face.
pressure_outlet ==
    /\ bc_pc = "apply"
    /\ bc.type = PRESSURE_OUTLET
    /\ \E w \in FaceStates, n \in Normals :
          \E st \in {Interior(w, n)} :
              OutletOnFace(w, n, st, FaceSoundSpeed(st))
    /\ bc_pc' = "applied"
    /\ UNCHANGED <<bc, variant, trig, solverVars, meshVars,
                   kernelVars>>

\* bc::supersonic_inlet on a face.
supersonic_inlet ==
    /\ bc_pc = "apply"
    /\ bc.type = SUPERSONIC_INLET
    /\ \E w \in FaceStates, n \in Normals :
          LET s == bc.state
              vel == <<s[1], s[2], s[3]>>
              out == [rho |-> s[0], u |-> s[1], v |-> s[2], w |-> s[3],
                      E |-> s[4], p |-> bc.value[1], un |-> Dot(vel, n)]
          IN  /\ bface' = [Wf |-> w, normal |-> n]
              /\ bW' = out
              /\ bF' = FluxOf(out, n)
              /\ regime' = "supersonic_inlet"
    /\ bc_pc' = "applied"
    /\ UNCHANGED <<bc, variant, trig, solverVars, meshVars,
                   kernelVars>>

\* Faulty variant: un = -a counts as supersonic inflow, un = a as subsonic.
StagnationRegimeShifted(un, a) ==
    IF Le(un, Neg(a)) THEN "supersonic_inlet"
    ELSE IF Lt(un, Zero) THEN "subsonic_inlet"
    ELSE IF Le(un, a) THEN "pressure_outlet"
    ELSE "supersonic_outlet"

\* The if / else if / else chain of stagnation_inlet.
StagnationRegime(un, a) ==
    IF Lt(un, Neg(a)) THEN "supersonic_inlet"
    ELSE IF Lt(un, Zero) THEN "subsonic_inlet"
    ELSE IF Lt(un, a) THEN "pressure_outlet"
    ELSE "supersonic_outlet"

\* The subsonic inflow state of stagnation_inlet once the speed V, the
\* kinetic energy k, the temperature T and the pressure p are known; dir is
\* the unit vector of the two angles.
InflowState(dir, n, V, k, T, p) ==
    LET rho == Div(p, Mul(fluid_R, T))
        vel == <<Mul(V, dir[1]), Mul(V, dir[2]), Mul(V, dir[3])>>
    IN  [rho |-> rho, u |-> vel[1], v |-> vel[2], w |-> vel[3],
         E |-> Add(Div(p, Sub(gamma, R(1))), Mul(rho, k)),
         p |-> p, un |-> Dot(vel, n)]

InflowPressure(dir, n, V, k, T) ==
    LET gam3 == Div(gamma, Sub(gamma, R(1)))
    IN  InflowState(dir, n, V, k, T,
            Div(bc.value[1],
                Pow(Add(R(1), Div(k, Mul(Mul(gam3, fluid_R), T))), gam3)))

InflowTemperature(dir, n, V, k) ==
    InflowPressure(dir, n, V, k,
        Div(Sub(bc.value[0], k), Mul(fluid_R, Div(gamma, Sub(gamma, R(1))))))

\* The positive root of the quadratic for the speed.
InflowSpeed(dir, n, sigma, Rp) ==
    LET gam2 == Div(R(2), Sub(gamma, R(1)))
        A == Add(Mul(sigma, sigma), gam2)
        B == Neg(Mul(Mul(R(2), sigma), Rp))
        C == Sub(Mul(Rp, Rp), Mul(Mul(bc.value[0], R(2)), gam2))
    IN  Div(Add(Neg(B), Sqrt(Sub(Mul(B, B), Mul(Mul(R(4), A), C)))),
            Mul(R(2), A))

InflowFromSpeed(dir, n, V) ==
    InflowTemperature(dir, n, V, Mul(Half, Mul(V, V)))

InflowAlong(dir, st, a, n) ==
    InflowFromSpeed(dir, n,
        InflowSpeed(dir, n, Dot(dir, n),
                    Add(st.un, Mul(a, Div(R(2), Sub(gamma, R(1)))))))

\* The subsonic inflow branch of stagnation_inlet.
SubsonicInflow(st, a, n) ==
    LET alpha == bc.value[3]
        phi == bc.value[4]
    IN  InflowAlong(<<Mul(Cos(alpha), Cos(phi)), Mul(Sin(alpha), Cos(phi)),
                      Sin(phi)>>, st, a, n)

\* The state of stagnation_inlet in branch br.
StagnationOut(st, a, n, br) ==
    CASE br = "supersonic_inlet" ->
            [rho |-> bc.state[0], u |-> bc.state[1], v |-> bc.state[2],
             w |-> bc.state[3], E |-> bc.state[4], p |-> bc.value[2],
             un |-> Dot(<<bc.state[1], bc.state[2], bc.state[3]>>, n)]
      [] br = "subsonic_inlet" -> SubsonicInflow(st, a, n)
      [] br = "pressure_outlet" ->
            Imposed(st, a, bc.value[1], gamma,
                    Div(Half, Div(gamma, Sub(gamma, R(1)))), n, UnitY, UnitZ)
      [] OTHER -> st

StagnationOnFace(w, n, st, a) ==
    /\ WritesFlux(w, n, StagnationRegime(st.un, a),
                  StagnationOut(st, a, n, StagnationRegime(st.un, a)))
    /\ trig' = IF StagnationRegime(st.un, a) = "subsonic_inlet"
               THEN trig \cup {bc.value[3], bc.value[4]} ELSE trig

\* bc::stagnation_inlet on a face.
stagnation_inlet ==
    /\ bc_pc = "apply"
    /\ bc.type = STAGNATION_INLET
    /\ \E w \in FaceStates, n \in Normals :
          \E st \in {Interior(w, n)} :
              StagnationOnFace(w, n, st, FaceSoundSpeed(st))
    /\ bc_pc' = "applied"
    /\ UNCHANGED <<bc, variant, solverVars, meshVars,
                   kernelVars>>

NextBoundary ==
    \/ init_supersonic_inlet
    \/ init_stagnation_inlet
    \/ init_pressure_outlet
    \/ supersonic_inlet
    \/ stagnation_inlet
    \/ pressure_outlet

SpecBoundary == InitBoundary /\ [][NextBoundary]_vars

(***************************************************************************)
(* Properties of read_mesh.                                                *)
(***************************************************************************)
\* C12: every fatal condition raised reaches the catch clause of main and
\* ends the run with the failure status, the one raised inside the parallel
\* loop of compute_elements included.
C12_FatalReachesMain ==
    mesh_fatal # "none" => mesh_exit = "failure"

\* Half-faces k and j of mesh.faces have the same set of nodes.
SameNodeSet(k, j) ==
    {mesh.faces[k].nodes[n] : n \in DOMAIN mesh.faces[k].nodes}
        = {mesh.faces[j].nodes[n] : n \in DOMAIN mesh.faces[j].nodes}

Sharing(k) == {j \in 1 .. mesh.n_faces : SameNodeSet(k, j)}

\* The links of a matched pair are mutual and neighbor is the owner of the
\* opposite half-face; an unmatched half-face has neither.
LinksMutual ==
    \A k \in 1 .. mesh.n_faces :
        LET f == mesh.faces[k]
        IN  /\ (f.opposite = -1) <=> (f.neighbor = -1)
            /\ f.opposite # -1 =>
                 /\ f.opposite \in 0 .. mesh.n_faces - 1
                 /\ f.opposite # f.id
                 /\ SameNodeSet(k, f.opposite + 1)
                 /\ mesh.faces[f.opposite + 1].opposite = f.id
                 /\ f.neighbor = mesh.faces[f.opposite + 1].owner

RECURSIVE LinesOfDimension(_, _)
LinesOfDimension(ls, d) ==
    IF ls = <<>> THEN <<>>
    ELSE IF TypeDimension(Head(ls).type) = d
         THEN <<Head(ls)>> \o LinesOfDimension(Tail(ls), d)
    ELSE LinesOfDimension(Tail(ls), d)

NodeSetOf(s) == {s[n] : n \in DOMAIN s}

\* C19: after read_mesh the element list holds exactly the elements of the
\* target dimension, in their order, n_elements is their number, and every
\* boundary half-face with the node set of a tagged element one dimension
\* below carries that element's first tag.
C19_OnlyVolumetric ==
    mesh_exit = "loaded" =>
        LET dim == TargetDimension(mesh_file.dimension)
            vol == LinesOfDimension(mesh_file.lines, dim)
            low == LinesOfDimension(mesh_file.lines, dim - 1)
        IN  /\ mesh.n_elements = Len(mesh.elements)
            /\ Len(mesh.elements) = Len(vol)
            /\ \A i \in 1 .. Len(vol) :
                  /\ mesh.elements[i].type = vol[i].type
                  /\ mesh.elements[i].nodes = vol[i].nodes
                  /\ mesh.elements[i].dimension = dim
                  /\ ~mesh.elements[i].boundary
            /\ \A i \in 1 .. Len(low) :
                  \A k \in 1 .. mesh.n_faces :
                      (/\ mesh.faces[k].neighbor = -1
                       /\ NodeSetOf(mesh.faces[k].nodes) = NodeSetOf(low[i].nodes))
                      => mesh.faces[k].flag = low[i].tags[1]

\* A tagged line element stands before the triangle whose edge it marks; it
\* has been removed and the edge carries its first tag.
C19_Witness ==
    /\ mesh_exit = "loaded"
    /\ Len(mesh_file.lines) = 3
    /\ mesh_file.lines[1].type = LINEAR
    /\ mesh_file.lines[1].tags = <<5>>
    /\ mesh.n_elements = 2
    /\ \E k \in 1 .. mesh.n_faces :
          /\ mesh.faces[k].flag = 5
          /\ mesh.faces[k].neighbor = -1

\* The volumes of the volumetric elements.
VolumetricVolumes ==
    {mesh.elements[i].volume :
        i \in {j \in 1 .. Len(mesh.elements) : ~mesh.elements[j].boundary}}

\* C20: compute_elements lets the load go on only if the least volume of the
\* volumetric elements exceeds min_volume and raises the fatal error
\* otherwise, wherever the boundary elements stand in the list.
C20_MinVolumeFloor ==
    VolumetricVolumes # {} =>
        /\ mesh_pc \in {"compute_faces", "assign_boundaries",
                        "compute_distances", "loaded"} =>
              \A v \in VolumetricVolumes : Gt(v, mesh_file.min_volume)
        /\ mesh_fatal = "Minimum cell volume is too small" =>
              \E v \in VolumetricVolumes : ~Gt(v, mesh_file.min_volume)

(***************************************************************************)
(* Properties of the inlet and outlet boundary functions.                  *)
(***************************************************************************)
\* The interior state and sound speed of the face the function was called on.
CalledState == Interior(bface.Wf, bface.normal)

CalledSpeed == FaceSoundSpeed(CalledState)

OutletCalled == bc_pc = "applied" /\ bc.type = PRESSURE_OUTLET

InletCalled == bc_pc = "applied" /\ bc.type = STAGNATION_INLET

\* C16: for a sound speed a > 0 stagnation_inlet takes the supersonic-inflow
\* branch exactly when un < -a, the subsonic-inflow branch exactly when
\* -a <= un < 0, the pressure-outlet branch exactly when 0 <= un < a and the
\* supersonic-outlet branch exactly when un >= a; the supersonic inflow uses
\* the precomputed state and the supersonic outlet the interior state.
C16_StagnationRegimes ==
    (InletCalled /\ Gt(CalledSpeed, Zero)) =>
        LET un == CalledState.un
            a == CalledSpeed
        IN  /\ regime \in {"supersonic_inlet", "subsonic_inlet",
                           "pressure_outlet", "supersonic_outlet"}
            /\ (regime = "supersonic_inlet") <=> Lt(un, Neg(a))
            /\ (regime = "subsonic_inlet") <=> (Ge(un, Neg(a)) /\ Lt(un, Zero))
            /\ (regime = "pressure_outlet") <=> (Ge(un, Zero) /\ Lt(un, a))
            /\ (regime = "supersonic_outlet") <=> Ge(un, a)
            /\ regime = "supersonic_inlet" =>
                  (bW.rho = bc.state[0] /\ bW.E = bc.state[4] /\ bW.p = bc.value[2])
            /\ regime = "pressure_outlet" => bW.p = bc.value[1]
            /\ regime = "supersonic_outlet" => bW = CalledState

\* The call on a face with un = -a exactly, which is subsonic inflow.
C16_Witness ==
    /\ InletCalled
    /\ Gt(CalledSpeed, Zero)
    /\ CalledState.un = Neg(CalledSpeed)
    /\ regime = "subsonic_inlet"

\* C17: every angle handed to std::cos or std::sin by the initialisation of
\* a supersonic or stagnation inlet, or by a later call, has been multiplied
\* by PI/180 exactly once.
C17_AnglesInRadians ==
    \A x \in trig : x.conv = 1

(***************************************************************************)
(* Properties of the correction fallback.                                  *)
(***************************************************************************)
\* C26: a call of apply_corrections that falls back to the second ring never
\* uses a boundary slot (neighbour index -1) of either ring as an index into
\* the element list or the state arrays.
C26_BoundarySlotsSkipped ==
    [][(pc = "apply_corrections" /\ pc' # pc) =>
          ~ReadsBeforeElements(W, Wold)]_vars

\* C30: whenever apply_corrections returns without aborting, every element
\* it flagged holds five finite components, a non-negative density and a
\* total energy not below its kinetic energy.
C30_CorrectedStatesValid ==
    [][(pc = "apply_corrections" /\ pc' \notin {pc, "exited"}) =>
          \A i \in Elements : Flagged(W[i]) => Valid(W'[i])]_vars

(***************************************************************************)
(* Properties of the face tables left by read_mesh.                        *)
(***************************************************************************)
\* Position (0-based) of element e of the active list is the owner of the
\* half-face with 0-based id.
OwnsFace(e, id) ==
    /\ e >= 0 /\ e < mesh.n_elements
    /\ \E f \in 1 .. Len(mesh.elements[e + 1].faces) :
          mesh.elements[e + 1].faces[f] = id

\* C27: after read_mesh the owner of every half-face is the position, in the
\* active element list, of the element whose face list holds the half-face,
\* and every neighbour entry of an element is -1 or the position of the
\* element that owns the opposite half-face.
C27_OwnersArePositions ==
    mesh_exit = "loaded" =>
        /\ \A k \in 1 .. mesh.n_faces :
              OwnsFace(mesh.faces[k].owner, k - 1)
        /\ \A i \in 1 .. mesh.n_elements :
              \A f \in 1 .. Len(mesh.elements[i].neighbors) :
                 \/ mesh.elements[i].neighbors[f] = -1
                 \/ OwnsFace(mesh.elements[i].neighbors[f],
                             mesh.faces[mesh.elements[i].faces[f] + 1].opposite)

\* The <<element, local face>> pairs whose entry of elem.faces is id.
Holders(id) ==
    {p \in (1 .. Len(mesh.elements)) \X (1 .. 4) :
        /\ p[2] <= Len(mesh.elements[p[1]].faces)
        /\ mesh.elements[p[1]].faces[p[2]] = id}

\* C29: when compute_faces has returned, whatever the order of the draws
\* from the shared counter, the face at position k of the face list has id
\* k (so the ids are distinct and fill 0 .. n_faces - 1), every element has
\* an id for each of its half-faces, and every id stands in exactly one
\* place of one element's face list, that of the owner.
C29_DistinctFaceIds ==
    mesh_pc = "assign_boundaries" =>
        /\ Len(mesh.faces) = mesh.n_faces
        /\ \A i \in 1 .. Len(mesh.elements) :
              Len(mesh.elements[i].faces) = mesh.elements[i].n_faces
        /\ \A k \in 1 .. mesh.n_faces :
              /\ mesh.faces[k].id = k - 1
              /\ Cardinality(Holders(k - 1)) = 1
              /\ \A p \in Holders(k - 1) : mesh.faces[k].owner = p[1] - 1

\* Two triangles have drawn their ids in turns: neither holds consecutive
\* ids only.
C29_Witness ==
    /\ mesh_pc = "assign_boundaries"
    /\ \E i, j \in 1 .. Len(mesh.elements) :
          /\ i # j
          /\ mesh.elements[i].n_faces = 3
          /\ mesh.elements[j].n_faces = 3
          /\ mesh.elements[i].faces[2] # mesh.elements[i].faces[1] + 1
          /\ mesh.elements[j].faces[3] # mesh.elements[j].faces[2] + 1

(***************************************************************************)
(* compute_fluxes on one interior face pair.                               *)
(***************************************************************************)
\* The conserved state of a gas with density rho, velocity (u, v, 0) and
\* pressure p: E = p / (gamma - 1) + rho (u^2 + v^2) / 2.
Gas(rho, u, v, p) ==
    St(rho, Mul(rho, u), Mul(rho, v), Zero,
       Add(Div(p, Sub(gamma, R(1))),
           Mul(Mul(Half, rho), Add(Mul(u, u), Mul(v, v)))))

\* Face states: subsonic, sonic and supersonic in both directions, with a
\* tangential velocity, and states outside the physical range.
FluxStates ==
    {Gas(R(2), R(u), Zero, R(1)) : u \in {-2, -1, 0, 1, 2}}
    \cup {Gas(R(2), R(1), R(1), R(1)), Gas(R(1), R(-1), R(1), R(2)),
          Gas(R(8), Zero, Zero, R(1)), Gas(R(1), R(3), R(-1), R(2))}
    \cup {NegP, Cold, NegRho}

\* The interior faces of the second cell of the row.
FluxFaces == {f \in Faces : face_owner[f] = 1 /\ face_opposite[f] >= 0}

InitFluxes ==
    /\ fx_pc = "compute_fluxes"
    /\ fx_in \in [solver : {RUSANOV, HLL, HLLC}, face : FluxFaces,
                  Wi : FluxStates, Wj : FluxStates]
    /\ fx_Fr = ZeroState
    /\ fx_F = [k \in {0, 1} |-> ZeroState]
    /\ SolverIdle
    /\ MeshIdle
    /\ BoundaryIdle
    /\ MusclIdle
    /\ ReduceIdle
    /\ RestartIdle

\* The loop body of compute_fluxes for the face (slot 0 of fx_F) and for its
\* opposite (slot 1); each reads Wf of both and writes its own F.
compute_fluxes_pair ==
    /\ fx_pc = "compute_fluxes"
    /\ fx_Fr' = riemann(fx_in.solver, RotateToFace(fx_in.Wi, fx_in.face),
                        RotateToFace(fx_in.Wj, fx_in.face))
    /\ fx_F' = [k \in {0, 1} |->
                  IF k = 0
                  THEN FaceFlux(fx_in.solver, fx_in.Wi, fx_in.Wj, fx_in.face)
                  ELSE FaceFlux(fx_in.solver, fx_in.Wj, fx_in.Wi,
                                face_opposite[fx_in.face])]
    /\ fx_pc' = "done"
    /\ UNCHANGED <<fx_in, solverVars, meshVars, bcVars, musclVars,
                   reduceVars,
                   restartVars>>

NextFluxes == compute_fluxes_pair

SpecFluxes == InitFluxes /\ [][NextFluxes]_vars

(***************************************************************************)
(* Properties of the interior fluxes.                                      *)
(***************************************************************************)
\* The Euler flux of the conserved state w along the first axis of its frame.
AnalyticFlux(w) ==
    LET p == RawPressure(w)
    IN  St(w[1],
           Add(Div(Mul(w[1], w[1]), w[0]), p),
           Div(Mul(w[1], w[2]), w[0]),
           Div(Mul(w[1], w[3]), w[0]),
           Div(Mul(Add(w[4], p), w[1]), w[0]))

\* Positive density and positive pressure.
Physical(w) == Gt(w[0], Zero) /\ Gt(RawPressure(w), Zero)

\* C22: each of rusanov, hll and hllc, called with the same physically valid
\* state on the left and on the right, returns the analytic Euler flux of
\* that state in the frame of the face.
C22_Consistency ==
    (/\ fx_pc = "done"
     /\ fx_in.Wi = fx_in.Wj
     /\ Physical(fx_in.Wi))
    => fx_Fr = AnalyticFlux(RotateToFace(fx_in.Wi, fx_in.face))

\* hllc has been called with twice the same subsonic state that moves
\* against the face normal, and has returned a flux that is not zero.
C22_Witness ==
    /\ fx_pc = "done"
    /\ fx_in.solver = HLLC
    /\ fx_in.Wi = fx_in.Wj
    /\ Physical(fx_in.Wi)
    /\ Lt(RotateToFace(fx_in.Wi, fx_in.face)[1], Zero)
    /\ fx_Fr[0] # Zero
    /\ fx_Fr[2] # Zero

\* C28: the flux stored for the opposite face is the negative of the flux
\* stored for the face, in each of the five components.
C28_FluxAntisymmetric ==
    fx_pc = "done" => \A v \in Vars : fx_F[1][v] = Neg(fx_F[0][v])

\* Two different physical states meet at the face and the flux has a mass
\* and an energy component.
C28_Witness ==
    /\ fx_pc = "done"
    /\ fx_in.Wi # fx_in.Wj
    /\ Physical(fx_in.Wi)
    /\ Physical(fx_in.Wj)
    /\ IsFinite(fx_F[0][0]) /\ fx_F[0][0] # Zero
    /\ IsFinite(fx_F[0][4]) /\ fx_F[0][4] # Zero
    /\ fx_F[1][0] = Neg(fx_F[0][0])

(***************************************************************************)
(* compute_gradients and muscl_reconstruction on a row of line cells.      *)
(***************************************************************************)
\* Number of cells of the row; the cells have length 1.
RowCells == 3

Row == 0 .. (RowCells - 1)

\* Local faces of a LINEAR element: 0 at its first node, 1 at its second.
RowFaces == {0, 1}

\* elem.neighbors[f]
row_neighbor(i, f) ==
    IF f = 0 THEN i - 1 ELSE IF i + 1 < RowCells THEN i + 1 ELSE -1

\* elem.d[f][0], elem.df[f][0] and elem.w[f][0] = d / (d . d)
row_d(f) == IF f = 0 THEN R(-1) ELSE R(1)

row_df(f) == IF f = 0 THEN Q(-1, 2) ELSE Q(1, 2)

row_w(f) == Mul(Recip(Mul(row_d(f), row_d(f))), row_d(f))

\* elem.S[0][0] of compute_distances in one dimension: 1 / sum of w * d over
\* the faces that have a neighbour.
RECURSIVE WeightSum(_, _)
WeightSum(i, k) ==
    IF k = 0 THEN Zero
    ELSE IF row_neighbor(i, k - 1) < 0 THEN WeightSum(i, k - 1)
    ELSE Add(WeightSum(i, k - 1), Mul(row_w(k - 1), row_d(k - 1)))

row_S(i) == Recip(WeightSum(i, 2))

\* b[0] of compute_gradients after the first k faces.
RECURSIVE GradientSum(_, _, _)
GradientSum(Wc, i, k) ==
    IF k = 0 THEN Zero
    ELSE IF row_neighbor(i, k - 1) < 0 THEN GradientSum(Wc, i, k - 1)
    ELSE Add(GradientSum(Wc, i, k - 1),
             Mul(row_w(k - 1), Sub(Wc[row_neighbor(i, k - 1)], Wc[i])))

\* The limiter functions.
minmod(rf) == IF Lt(rf, R(1)) THEN R(1) ELSE Div(R(1), rf)

superbee(rf) ==
    IF Lt(rf, Half) THEN R(2)
    ELSE Max(Min(Div(R(2), rf), R(1)), Min(Div(R(1), rf), R(2)))

vanleer(rf) == Div(R(2), Add(rf, R(1)))

venkatakrishnan(rf) ==
    Div(Add(Mul(R(2), rf), R(1)),
        Add(Mul(rf, Add(Mul(R(2), rf), R(1))), R(1)))

modified_venkatakrishnan(rf) ==
    Div(Add(Mul(rf, Add(Mul(R(2), rf), R(1))), R(1)),
        Add(Mul(rf, Add(Mul(rf, Add(Mul(R(2), rf), R(1))), R(1))), R(1)))

Limiters ==
    {"MINMOD", "SUPERBEE", "VANLEER", "VENKATAKRISHNAN", "MODVENKATAKRISHNAN"}

\* get_limiter
limiter(type, rf) ==
    CASE type = "MINMOD" -> minmod(rf)
      [] type = "SUPERBEE" -> superbee(rf)
      [] type = "VANLEER" -> vanleer(rf)
      [] type = "VENKATAKRISHNAN" -> venkatakrishnan(rf)
      [] OTHER -> modified_venkatakrishnan(rf)

\* Wmax and Wmin of muscl_reconstruction after the first k faces.
RECURSIVE EnvelopeMax(_, _, _)
EnvelopeMax(Wc, i, k) ==
    IF k = 0 THEN Wc[i]
    ELSE IF row_neighbor(i, k - 1) < 0 THEN EnvelopeMax(Wc, i, k - 1)
    ELSE Max(EnvelopeMax(Wc, i, k - 1), Wc[row_neighbor(i, k - 1)])

RECURSIVE EnvelopeMin(_, _, _)
EnvelopeMin(Wc, i, k) ==
    IF k = 0 THEN Wc[i]
    ELSE IF row_neighbor(i, k - 1) < 0 THEN EnvelopeMin(Wc, i, k - 1)
    ELSE Min(EnvelopeMin(Wc, i, k - 1), Wc[row_neighbor(i, k - 1)])

\* The spread below which the envelope counts as collapsed (1.0e-5).
Collapse == Q(1, 100000)

\* The test that sets alpha to 0 and leaves the limiter loop.
Collapsed(Df, Dmax, Dmin) ==
    \/ Ge(Df, Zero) /\ Lt(Dmax, Collapse)
    \/ Le(Df, Zero) /\ Gt(Dmin, Neg(Collapse))

\* rf = (Df > 0.0) ? Df / Dmax : Df / Dmin
SlopeRatio(Df, Dmax, Dmin) ==
    IF Gt(Df, Zero) THEN Div(Df, Dmax) ELSE Div(Df, Dmin)

\* Faulty variant: a face with a collapsed envelope is passed over.
RECURSIVE LimiterLoopSkip(_, _, _, _, _, _)
LimiterLoopSkip(type, g, Dmax, Dmin, f, alpha) ==
    IF f = 2 THEN alpha
    ELSE IF Collapsed(Mul(g, row_df(f)), Dmax, Dmin)
    THEN LimiterLoopSkip(type, g, Dmax, Dmin, f + 1, alpha)
    ELSE LimiterLoopSkip(type, g, Dmax, Dmin, f + 1,
            Min(alpha, limiter(type, SlopeRatio(Mul(g, row_df(f)), Dmax, Dmin))))

\* The limiter loop from face f on, entered with alpha.
RECURSIVE LimiterLoop(_, _, _, _, _, _)
LimiterLoop(type, g, Dmax, Dmin, f, alpha) ==
    IF f = 2 THEN alpha
    ELSE IF Collapsed(Mul(g, row_df(f)), Dmax, Dmin) THEN Zero
    ELSE LimiterLoop(type, g, Dmax, Dmin, f + 1,
            Min(alpha, limiter(type, SlopeRatio(Mul(g, row_df(f)), Dmax, Dmin))))

\* alpha of cell i.
Alpha(type, Wc, g, i) ==
    LimiterLoop(type, g[i], Sub(EnvelopeMax(Wc, i, 2), Wc[i]),
                Sub(EnvelopeMin(Wc, i, 2), Wc[i]), 0, R(1))

\* Values of one conserved variable in a cell.
MusclValues == {Zero, Q(1, 4), R(1), R(9), R(10)}

InitMuscl ==
    /\ ms_pc = "compute_gradients"
    /\ ms_in \in [limiter : Limiters, W : [Row -> MusclValues]]
    /\ ms_grad = [i \in Row |-> Zero]
    /\ ms_alpha = [i \in Row |-> Zero]
    /\ ms_Wf = [i \in Row |-> [f \in RowFaces |-> Zero]]
    /\ SolverIdle
    /\ MeshIdle
    /\ BoundaryIdle
    /\ FluxIdle
    /\ ReduceIdle
    /\ RestartIdle

\* compute_gradients: g = S * b.
compute_gradients_row ==
    /\ ms_pc = "compute_gradients"
    /\ ms_grad' = [i \in Row |-> Mul(row_S(i), GradientSum(ms_in.W, i, 2))]
    /\ ms_pc' = "reconstruction"
    /\ UNCHANGED <<ms_in, ms_alpha, ms_Wf, solverVars, meshVars, bcVars,
                   fluxVars, reduceVars,
                   restartVars>>

\* muscl_reconstruction: Wf = W + alpha * (gradW . df[f]).
muscl_reconstruction ==
    /\ ms_pc = "reconstruction"
    /\ ms_alpha' = [i \in Row |-> Alpha(ms_in.limiter, ms_in.W, ms_grad, i)]
    /\ ms_Wf' = [i \in Row |-> [f \in RowFaces |->
                    Add(ms_in.W[i],
                        Mul(ms_alpha'[i], Mul(ms_grad[i], row_df(f))))]]
    /\ ms_pc' = "done"
    /\ UNCHANGED <<ms_in, ms_grad, solverVars, meshVars, bcVars, fluxVars,
                   reduceVars,
                   restartVars>>

NextMuscl ==
    \/ compute_gradients_row
    \/ muscl_reconstruction

SpecMuscl == InitMuscl /\ [][NextMuscl]_vars

(***************************************************************************)
(* Properties of the reconstruction.                                       *)
(***************************************************************************)
\* The values of the cell and of its immediate neighbours.
Around(i) ==
    {ms_in.W[i]} \cup {ms_in.W[row_neighbor(i, f)] :
                          f \in {k \in RowFaces : row_neighbor(i, k) >= 0}}

\* C21: whatever the limiter, every reconstructed face value lies between
\* the least and the greatest value of the cell and its immediate
\* neighbours.
C21_WithinEnvelope ==
    ms_pc = "done" =>
        \A i \in Row : \A f \in RowFaces :
            /\ \E lo \in Around(i) : Le(lo, ms_Wf[i][f])
            /\ \E hi \in Around(i) : Le(ms_Wf[i][f], hi)

\* The limiter values of the faces of cell i.
FaceLimiters(i) ==
    LET Dmax == Sub(EnvelopeMax(ms_in.W, i, 2), ms_in.W[i])
        Dmin == Sub(EnvelopeMin(ms_in.W, i, 2), ms_in.W[i])
    IN  {limiter(ms_in.limiter,
                 SlopeRatio(Mul(ms_grad[i], row_df(f)), Dmax, Dmin))
            : f \in RowFaces}

\* The envelope of cell i has collapsed in the direction of the
\* extrapolation to one of its faces.
SomeCollapsed(i) ==
    \E f \in RowFaces :
        Collapsed(Mul(ms_grad[i], row_df(f)),
                  Sub(EnvelopeMax(ms_in.W, i, 2), ms_in.W[i]),
                  Sub(EnvelopeMin(ms_in.W, i, 2), ms_in.W[i]))

\* C25: the factor of a cell is 0 if the envelope has collapsed for one of
\* its faces and otherwise the least of 1 and the limiter values of all its
\* faces; every face value is the cell value plus that factor times the
\* extrapolation to the face.
C25_SharedFactor ==
    ms_pc = "done" =>
        \A i \in Row :
            /\ IF SomeCollapsed(i) THEN ms_alpha[i] = Zero
               ELSE /\ ms_alpha[i] \in FaceLimiters(i) \cup {R(1)}
                    /\ \A x \in FaceLimiters(i) \cup {R(1)} : Le(ms_alpha[i], x)
            /\ \A f \in RowFaces :
                  ms_Wf[i][f] =
                     Add(ms_in.W[i],
                         Mul(ms_alpha[i], Mul(ms_grad[i], row_df(f))))

\* A cell whose factor lies strictly between 0 and 1 and is set by one face
\* while the other face would allow more, and a cell whose envelope has
\* collapsed at its second face only.
C25_Witness ==
    /\ ms_pc = "done"
    /\ \E i \in Row :
          /\ Gt(ms_alpha[i], Zero) /\ Lt(ms_alpha[i], R(1))
          /\ \E x \in FaceLimiters(i) : Gt(x, ms_alpha[i])
          /\ ms_Wf[i][0] # ms_in.W[i]
    /\ \E i \in Row :
          /\ ms_alpha[i] = Zero
          /\ ms_grad[i] # Zero
          /\ ~Collapsed(Mul(ms_grad[i], row_df(0)),
                        Sub(EnvelopeMax(ms_in.W, i, 2), ms_in.W[i]),
                        Sub(EnvelopeMin(ms_in.W, i, 2), ms_in.W[i]))

(***************************************************************************)
(* The parallel regions that reduce over the elements.                     *)
(***************************************************************************)
\* Threads of the team and elements of the loop.
NThreads == 2

RedElems == 4

Threads == 0 .. (NThreads - 1)

\* The iterations of the worksharing loop given to thread t, in the order
\* in which the thread runs them (contiguous blocks).
Chunk(t) ==
    LET mine == {i \in 0 .. (RedElems - 1) : (i * NThreads) \div RedElems = t}
    IN  [k \in 1 .. Cardinality(mine) |->
            CHOOSE i \in mine : Cardinality({j \in mine : j < i}) = k - 1]

\* The element the thread is at.
Current(t) == Chunk(t)[rd_thread[t].next]

\* The thread has moved to its next iteration; after the last one it goes to
\* what follows the loop.
Stepped(t, again, after) ==
    /\ rd_pc' = [rd_pc EXCEPT ![t] = IF rd_thread[t].next < Len(Chunk(t))
                                     THEN again ELSE after]

InitReduce ==
    /\ rd_in \in [kernel : {"update_timestep", "get_residuals",
                            "apply_corrections"},
                  x : [0 .. (RedElems - 1) -> {-2, 1, 3}]]
    /\ rd_pc = [t \in Threads |->
                  IF rd_in.kernel = "get_residuals" THEN "load" ELSE "loop"]
    /\ rd_thread = [t \in Threads |->
                      [next |-> 1, loaded |-> Zero, var_local |-> Zero,
                       thread_corrections |-> 0]]
    /\ rd_shared = [var |-> Zero, residual |-> Zero, corrections |-> 0]
    /\ SolverIdle
    /\ MeshIdle
    /\ BoundaryIdle
    /\ FluxIdle
    /\ MusclIdle
    /\ RestartIdle

othersOfReduce ==
    <<solverVars, meshVars, bcVars, fluxVars, musclVars, restartVars>>

\* get_residuals, "residual[v] += std::abs(rhs[...])" inside a parallel for
\* without a reduction clause: the thread reads the shared sum ...
get_residuals_load ==
    \E t \in Threads :
        /\ rd_in.kernel = "get_residuals"
        /\ rd_pc[t] = "load"
        /\ rd_thread' = [rd_thread EXCEPT ![t].loaded = rd_shared.residual]
        /\ rd_pc' = [rd_pc EXCEPT ![t] = "store"]
        /\ UNCHANGED <<rd_in, rd_shared, othersOfReduce>>

\* ... and writes back what it has read plus its term.
get_residuals_store ==
    \E t \in Threads :
        /\ rd_in.kernel = "get_residuals"
        /\ rd_pc[t] = "store"
        /\ rd_shared' = [rd_shared EXCEPT
                           !.residual = Add(rd_thread[t].loaded,
                                            AbsR(R(rd_in.x[Current(t)])))]
        /\ rd_thread' = [rd_thread EXCEPT ![t].next = @ + 1]
        /\ Stepped(t, "load", "done")
        /\ UNCHANGED <<rd_in, othersOfReduce>>

\* update_timestep: one iteration of the "omp for" on the private var_local.
update_timestep_loop ==
    \E t \in Threads :
        /\ rd_in.kernel = "update_timestep"
        /\ rd_pc[t] = "loop"
        /\ rd_thread' =
              [rd_thread EXCEPT
                 ![t].var_local = IF Gt(R(rd_in.x[Current(t)]), @)
                                  THEN R(rd_in.x[Current(t)]) ELSE @,
                 ![t].next = @ + 1]
        /\ Stepped(t, "loop", "merge")
        /\ UNCHANGED <<rd_in, rd_shared, othersOfReduce>>

\* update_timestep: the critical section that merges var_local into var.
update_timestep_critical ==
    \E t \in Threads :
        /\ rd_in.kernel = "update_timestep"
        /\ rd_pc[t] = "merge"
        /\ rd_shared' = [rd_shared EXCEPT
                           !.var = IF Gt(rd_thread[t].var_local, @)
                                   THEN rd_thread[t].var_local ELSE @]
        /\ rd_pc' = [rd_pc EXCEPT ![t] = "done"]
        /\ UNCHANGED <<rd_in, rd_thread, othersOfReduce>>

\* apply_corrections: one iteration of the "omp for"; an element with a
\* negative value is corrected and counted in the private counter.
apply_corrections_loop ==
    \E t \in Threads :
        /\ rd_in.kernel = "apply_corrections"
        /\ rd_pc[t] = "loop"
        /\ rd_thread' =
              [rd_thread EXCEPT
                 ![t].thread_corrections =
                     IF rd_in.x[Current(t)] < 0 THEN @ + 1 ELSE @,
                 ![t].next = @ + 1]
        /\ Stepped(t, "loop", "merge")
        /\ UNCHANGED <<rd_in, rd_shared, othersOfReduce>>

\* apply_corrections: "#pragma omp atomic  corrections += thread_corrections".
apply_corrections_atomic ==
    \E t \in Threads :
        /\ rd_in.kernel = "apply_corrections"
        /\ rd_pc[t] = "merge"
        /\ rd_shared' = [rd_shared EXCEPT
                           !.corrections = @ + rd_thread[t].thread_corrections]
        /\ rd_pc' = [rd_pc EXCEPT ![t] = "done"]
        /\ UNCHANGED <<rd_in, rd_thread, othersOfReduce>>

NextReduce ==
    \/ get_residuals_load
    \/ get_residuals_store
    \/ update_timestep_loop
    \/ update_timestep_critical
    \/ apply_corrections_loop
    \/ apply_corrections_atomic

SpecReduce == InitReduce /\ [][NextReduce]_vars

(***************************************************************************)
(* Properties of the reductions.                                           *)
(***************************************************************************)
\* The results of the loops run by one thread over the elements 0 .. k - 1.
RECURSIVE SeqMax(_), SeqAbsSum(_), SeqCount(_)
SeqMax(k) ==
    IF k = 0 THEN Zero
    ELSE IF Gt(R(rd_in.x[k - 1]), SeqMax(k - 1)) THEN R(rd_in.x[k - 1])
    ELSE SeqMax(k - 1)

SeqAbsSum(k) ==
    IF k = 0 THEN Zero ELSE Add(SeqAbsSum(k - 1), AbsR(R(rd_in.x[k - 1])))

SeqCount(k) ==
    IF k = 0 THEN 0 ELSE SeqCount(k - 1) + (IF rd_in.x[k - 1] < 0 THEN 1 ELSE 0)

\* C23: when every thread has left the parallel region the shared result is
\* that of the sequential loop, for each of the three reductions.
C23_ReductionsSequential ==
    (\A t \in Threads : rd_pc[t] = "done") =>
        CASE rd_in.kernel = "update_timestep" -> rd_shared.var = SeqMax(RedElems)
          [] rd_in.kernel = "get_residuals" ->
                rd_shared.residual = SeqAbsSum(RedElems)
          [] OTHER -> rd_shared.corrections = SeqCount(RedElems)

(***************************************************************************)
(* The restart file: write_restart at the end of a run and the restart     *)
(* branch of set_initial_conditions in a fresh run.                        *)
(***************************************************************************)
\* std::setprecision(7) with std::scientific: digits after the point.
Precision == 7

RECURSIVE Pow10(_)
Pow10(k) == IF k = 0 THEN 1 ELSE 10 * Pow10(k - 1)

Pow10Q(e) == IF e >= 0 THEN R(Pow10(e)) ELSE Q(1, Pow10(-e))

\* Decimal exponents of the values of the model.
Exponents == -2 .. 2

\* The decimal exponent of a positive finite value.
Exp10(a) ==
    CHOOSE e \in Exponents : Le(Pow10Q(e), a) /\ Lt(a, Pow10Q(e + 1))

\* Long division: k more decimal digits of r/den appended to m.
RECURSIVE LongDiv(_, _, _, _)
LongDiv(m, r, den, k) ==
    IF k = 0 THEN <<m, r>>
    ELSE LongDiv(m * 10 + (r * 10) \div den, (r * 10) % den, den, k - 1)

\* The digits d.ddddddd of a/10^e, the last one rounded to nearest (ties to
\* even), and the exponent; 9.99999995 becomes 1.0000000 with e + 1.
Mantissa(a, e) ==
    LET num == a[1] * (IF e < 0 THEN Pow10(-e) ELSE 1)
        den == a[2] * (IF e >= 0 THEN Pow10(e) ELSE 1)
        md  == LongDiv(num \div den, num % den, den, Precision)
        up  == \/ 2 * md[2] > den
               \/ 2 * md[2] = den /\ md[1] % 2 = 1
        m   == IF up THEN md[1] + 1 ELSE md[1]
    IN  IF m = Pow10(Precision + 1) THEN <<Pow10(Precision), e + 1>>
        ELSE <<m, e>>

\* "ofs << x" on a double after "ofs << std::scientific <<
\* std::setprecision(7)": the text of the value.
Format(x) ==
    IF IsNaN(x) THEN [kind |-> "nan"]
    ELSE IF IsInf(x) THEN [kind |-> "inf", neg |-> x[1] < 0]
    ELSE IF x = Zero THEN [kind |-> "num", neg |-> FALSE, m |-> 0, e |-> 0]
    ELSE LET me == Mantissa(AbsR(x), Exp10(AbsR(x)))
         IN  [kind |-> "num", neg |-> x[1] < 0, m |-> me[1], e |-> me[2]]

\* "file >> x" on a double: the text is converted if it is a decimal number;
\* "nan" and "inf" are not accepted and set the stream's fail state.
Parses(tok) == tok.kind = "num"

Parse(tok) ==
    LET mag == IF tok.e >= Precision
               THEN R(tok.m * Pow10(tok.e - Precision))
               ELSE Q(tok.m, Pow10(Precision - tok.e))
    IN  IF tok.neg THEN Neg(mag) ELSE mag

\* Iterations of the run that writes the file, and cells of its mesh.
MaxRuns == 3

RestartCells == 2

\* A state whose values have no finite decimal expansion.
Thirds == St(Q(1, 3), Q(2, 3), Zero, Zero, Q(5, 2))

\* Values of eight digits and more.
Fine == St(Q(10000001, 10000000), Zero, Zero, Zero, Q(99999999, 1000000))

RestartStates == {Rest, Thirds, Fine, InfE}

RestartTimes == {R(1), Q(1, 3), Q(5, 2), Q(999999996, 100000000)}

NoFile == [header |-> "none"]

\* A run with maxiter = k has left the loop of solve at iteration k.
InitRestart ==
    /\ rs_pc = "solved"
    /\ rs_first \in [iteration : 1 .. MaxRuns, time : RestartTimes,
                     W : [0 .. (RestartCells - 1) -> RestartStates]]
    /\ rs_file = NoFile
    /\ rs_sim = [maxiter |-> rs_first.iteration, iteration |-> 0,
                 time |-> Zero, W |-> [i \in 0 .. (RestartCells - 1) |-> ZeroState]]
    /\ SolverIdle
    /\ MeshIdle
    /\ BoundaryIdle
    /\ FluxIdle
    /\ MusclIdle
    /\ ReduceIdle

othersOfRestart ==
    <<solverVars, meshVars, bcVars, fluxVars, musclVars, reduceVars>>

\* write_restart, called by Writer::save_restart at the end of solve.  When
\* the file cannot be opened a warning is logged and nothing is written.
write_restart ==
    /\ rs_pc = "solved"
    /\ \E opened \in BOOLEAN :
          rs_file' =
              IF ~opened THEN NoFile
              ELSE [header |-> "# EULERCPP Restart File",
                    iteration |-> rs_first.iteration,
                    time |-> Format(rs_first.time),
                    n_elements |-> RestartCells,
                    n_var |-> 5,
                    W |-> [i \in 0 .. (RestartCells - 1) |->
                             [v \in Vars |-> Format(rs_first.W[i][v])]]]
    /\ rs_pc' = "written"
    /\ UNCHANGED <<rs_first, rs_sim, othersOfRestart>>

\* The values of the file in reading order, and the first that is not read.
Tokens == {<<i, v>> : i \in 0 .. (RestartCells - 1), v \in Vars}

Unread == {t \in Tokens : ~Parses(rs_file.W[t[1]][t[2]])}

Before(t, u) == t[1] < u[1] \/ (t[1] = u[1] /\ t[2] < u[2])

\* set_initial_conditions with input.init.restart = 1 in a fresh run of the
\* same configuration and mesh.  The header values are read and tested
\* first; the values are stored one by one up to the first that is not read.
set_initial_conditions_restart ==
    /\ rs_pc = "written"
    /\ IF rs_file.header = "none"
       THEN /\ rs_pc' = "failed"
            /\ UNCHANGED rs_sim
       ELSE IF \/ ~Parses(rs_file.time)
               \/ rs_file.n_elements # RestartCells
               \/ rs_file.n_var # 5
       THEN /\ rs_pc' = "failed"
            /\ UNCHANGED rs_sim
       ELSE /\ rs_pc' = IF Unread = {} THEN "loaded" ELSE "failed"
            /\ rs_sim' =
                  [maxiter |-> rs_sim.maxiter + rs_file.iteration,
                   iteration |-> rs_file.iteration,
                   time |-> Parse(rs_file.time),
                   W |-> [i \in 0 .. (RestartCells - 1) |->
                            [v \in Vars |->
                               IF \E u \in Unread :
                                     u = <<i, v>> \/ Before(u, <<i, v>>)
                               THEN rs_sim.W[i][v]
                               ELSE Parse(rs_file.W[i][v])]]]
    /\ UNCHANGED <<rs_first, rs_file, othersOfRestart>>

NextRestart ==
    \/ write_restart
    \/ set_initial_conditions_restart

SpecRestart == InitRestart /\ [][NextRestart]_vars

(***************************************************************************)
(* Properties of the restart.                                              *)
(***************************************************************************)
\* C24: the fresh run that has loaded the restart of a run of N iterations
\* stands at iteration N with maxiter 2N, at the time and in the state in
\* which the first run stopped, so that its remaining N iterations are
\* those of the uninterrupted run.
C24_RestartContinues ==
    rs_pc = "loaded" =>
        /\ rs_sim.iteration = rs_first.iteration
        /\ rs_sim.maxiter = 2 * rs_first.iteration
        /\ rs_sim.time = rs_first.time
        /\ rs_sim.W = rs_first.W


====
